---- MODULE Spec2Model ----
(***************************************************************************)
(* den: passkey login service.  Model of the ceremony store, the single-   *)
(* user bootstrap guard, passkey deletion, the session token codec and the *)
(* cross-origin handoff (src/src/api/auth.rs, src/src/auth.rs,             *)
(* src/src/origin.rs, src/src/main.rs) and the canonical-origin middleware *)
(* (src/src/middleware.rs).                                                *)
(*                                                                         *)
(* Conventions.  Option<T> is a set with at most one element ({} = None).  *)
(* Every SQL statement is one atomic step (SQLite executes a statement     *)
(* atomically), so a handler with several statements has one action per    *)
(* statement; the requests between two statements are the bag inflight,    *)
(* and other requests interleave there.  last is the response sent most    *)
(* recently; for a function checked on its own, last holds the call: its   *)
(* arguments (args) and, once it returned, its result (ret).  Strings are  *)
(* atomic values; case folding is the table Lower.                         *)
(* An origin string scheme://[cred@]host[:port] is the record              *)
(* [ok, scheme, cred, host, port]: ok = Url::parse succeeds, port 0 = no   *)
(* port in the text.                                                       *)
(***************************************************************************)
EXTENDS Integers, FiniteSets, Sequences, Bags, TLC

\* ---------------------------------------------------------------- bounds
MaxInflight == 2
MaxUuid == 4
MaxPasskeys == 2
MaxTicks == 2
MaxTokens == 1
MaxLen == 3
MaxQuery == 3

\* ------------------------------------------------------ program constants
ChallengeTtl == 5 * 60
HandoffTtl == 60
SessionTtl == 7 * 24 * 60 * 60
Leeway == 60

Secrets == {"S1", "S2"}

\* the element of a singleton set (Option::unwrap)
The(S) == CHOOSE x \in S : TRUE

\* a start that never finds the stored key
stored_secret_none(rows) == {}

\* main.rs init_jwt_secret: SELECT secret FROM signing_key WHERE id = 1,
\* fetch_optional
stored_secret(rows) == {r.secret : r \in {x \in rows : x.id = 1}}

\* table signing_key holds one record, id = 1: an INSERT of a second row
\* with that id is refused; [ok, rows]
insert_signing_key(rows, secret) ==
  IF \E r \in rows : r.id = 1 THEN [ok |-> FALSE, rows |-> rows]
  ELSE [ok |-> TRUE, rows |-> rows \cup {[id |-> 1, secret |-> secret]}]

\* AppState.jwt_secret while no process has finished its start
NoSecret == ""

\* ------------------------------------------------------------ strings
\* str::to_ascii_lowercase / eq_ignore_ascii_case on the strings used here
Lower(s) ==
  CASE s = "HTTPS" -> "https"
    [] s = "HTTP" -> "http"
    [] s = "DEN.EXAMPLE" -> "den.example"
    [] s = "B.EXAMPLE" -> "b.example"
    [] OTHER -> s

DefaultPort(scheme) == IF scheme = "https" THEN 443 ELSE 80

\* origin.rs normalize_origin: Url::parse, scheme http|https, host present,
\* no credentials; result is origin().ascii_serialization()
normalize_origin(o) ==
  LET s == Lower(o.scheme) IN
  IF ~o.ok \/ s \notin {"http", "https"} \/ o.host = "" \/ o.cred
  THEN {}
  ELSE {[ok |-> TRUE, scheme |-> s, cred |-> FALSE, host |-> Lower(o.host),
         port |-> IF o.port = DefaultPort(s) THEN 0 ELSE o.port]}

host_with_port(u) == [host |-> Lower(u.host), port |-> u.port]

origin_host(o) ==
  LET n == normalize_origin(o) IN
  IF n = {} THEN {} ELSE {host_with_port(The(n))}

\* str::eq_ignore_ascii_case on two origin strings
eq_ignore_ascii_case(a, b) ==
  /\ a.ok = b.ok
  /\ Lower(a.scheme) = Lower(b.scheme)
  /\ a.cred = b.cred
  /\ Lower(a.host) = Lower(b.host)
  /\ a.port = b.port

Origin(scheme, host, port) ==
  [ok |-> TRUE, scheme |-> scheme, cred |-> FALSE, host |-> host, port |-> port]

\* main.rs: rp_origin after Url::parse(..).origin().ascii_serialization()
rp_origin == Origin("https", "den.example", 0)
secure_cookies == rp_origin.scheme = "https"

\* origin.rs normalize_host on a configured entry (bare host[:port])
normalize_host(h) ==
  IF h.host = "" THEN {}
  ELSE {[host |-> Lower(h.host), port |-> IF h.port = 80 THEN 0 ELSE h.port]}

\* origin.rs load_allowed_hosts
load_allowed_hosts(rp, configured) ==
  origin_host(rp) \cup UNION {normalize_host(h) : h \in configured}

\* api/auth.rs normalize_redirect_path; a path is a sequence of characters
IsSpace(c) == c = " "
RECURSIVE TrimStart(_)
TrimStart(s) ==
  IF s # <<>> /\ IsSpace(Head(s)) THEN TrimStart(Tail(s)) ELSE s
RECURSIVE TrimEnd(_)
TrimEnd(s) ==
  IF s # <<>> /\ IsSpace(s[Len(s)]) THEN TrimEnd(SubSeq(s, 1, Len(s) - 1)) ELSE s
Trim(s) == TrimEnd(TrimStart(s))

\* a normalisation that forgets the protocol-relative prefix
normalize_redirect_path_slash_only(path) ==
  IF path = {} THEN <<"/">>
  ELSE LET t == Trim(The(path)) IN
       IF /\ Len(t) >= 1 /\ t[1] = "/"
          /\ \A i \in 1..Len(t) : t[i] # "\\"
       THEN t ELSE <<"/">>

normalize_redirect_path(path) ==
  IF path = {} THEN <<"/">>
  ELSE LET t == Trim(The(path)) IN
       IF /\ Len(t) >= 1 /\ t[1] = "/"
          /\ ~(Len(t) >= 2 /\ t[2] = "/")
          /\ \A i \in 1..Len(t) : t[i] # "\\"
       THEN t ELSE <<"/">>

\* ------------------------------------------------------------ tokens
\* auth.rs create_token (HS256 over the secret: the signature is the key)
create_token(secret, user_id, t) ==
  [sub |-> user_id, iat |-> t, exp |-> t + SessionTtl, key |-> secret]

\* a decoder that accepts a token only at the moment it was issued
jwt_valid_once(secret, token, t) ==
  /\ token.key = secret
  /\ t = token.iat

\* jsonwebtoken decode with Validation::default(): signature, then
\* exp < now - leeway is rejected (default leeway 60)
jwt_valid(secret, token, t) ==
  /\ token.key = secret
  /\ ~(token.exp < t - Leeway)

\* a decoder that skips the signature check
user_id_from_token_unverified(secret, token, t) ==
  IF ~(token.exp < t - Leeway) THEN {token.sub} ELSE {}

\* auth.rs user_id_from_token
user_id_from_token(secret, token, t) ==
  IF jwt_valid(secret, token, t) THEN {token.sub} ELSE {}

\* an extractor that rejects every cookie
AuthUser_none(secret, cookie, t) == {}

\* auth.rs AuthUser::from_request_parts / MaybeAuthUser: cookie is Option
AuthUser(secret, cookie, t) ==
  IF cookie = {} THEN {} ELSE user_id_from_token(secret, The(cookie), t)

\* a token issued in the name of its target
issue_login_redirect_token_self(secret, user_id, target_origin, target_path, t) ==
  [iss |-> target_origin, aud |-> target_origin, sub |-> user_id,
   path |-> target_path, iat |-> t, exp |-> t + HandoffTtl, key |-> secret]

\* a token that forgets the path it was asked for
issue_login_redirect_token_root(secret, user_id, target_origin, target_path, t) ==
  [iss |-> rp_origin, aud |-> target_origin, sub |-> user_id,
   path |-> <<"/">>, iat |-> t, exp |-> t + HandoffTtl, key |-> secret]

\* api/auth.rs issue_login_redirect_token
issue_login_redirect_token(secret, user_id, target_origin, target_path, t) ==
  [iss |-> rp_origin, aud |-> target_origin, sub |-> user_id,
   path |-> target_path, iat |-> t, exp |-> t + HandoffTtl, key |-> secret]

VARIABLES
  now,            \* wall clock, seconds (datetime('now'), now_utc())
  ticks,          \* number of clock advances so far
  uuid,           \* number of Uuid::new_v4() values drawn so far
  auth_challenge, \* table auth_challenge: rows [id, kind, expires_at, ctx]
  user,           \* table user: rows [id]
  passkey,        \* table passkey: rows [id, user_id]
  signing_key,    \* table signing_key: rows [id, secret]
  jwt_secret,     \* AppState.jwt_secret
  allowed_hosts,  \* AppState.allowed_hosts
  sessions,       \* session tokens handed to the client so far
  handoffs,       \* handoff tokens handed to the client so far
  inflight,       \* bag of requests suspended between two statements
  last,           \* the response sent most recently
  redeemed        \* per challenge id, how many calls were handed its row

vars == <<now, ticks, uuid, auth_challenge, user, passkey, signing_key, jwt_secret,
          allowed_hosts, sessions, handoffs, inflight, last, redeemed>>

\* the blank request record: locals of a handler and, once status is set,
\* its response
Idle ==
  [op |-> "idle", step |-> "start", status |-> 0,
   tok |-> {}, auth |-> {}, cid |-> 0, row |-> {},
   created |-> FALSE, pk |-> 0, n0 |-> 0, owned0 |-> FALSE,
   cookie |-> {}, secure |-> FALSE, at |-> 0,
   htok |-> {}, origin |-> {}, url |-> {}, location |-> <<>>,
   seen |-> FALSE, args |-> {}, ret |-> {}]

\* cookies a client can send: none, one it was given, or one signed with a
\* key that is not the server's
Forged(t) ==
  {[sub |-> u.id, iat |-> t, exp |-> t + SessionTtl, key |-> k] :
     u \in user, k \in Secrets \ {jwt_secret}}
CookieInputs == {{}} \cup {{s} : s \in sessions \cup Forged(now)}

\* hosts configured in allowed_hosts of the config file
ConfiguredHosts == {[host |-> "b.example", port |-> 0]}

Init ==
  /\ now = 0
  /\ ticks = 0
  /\ uuid = 0
  /\ auth_challenge = {}
  /\ user = {}
  /\ passkey = {}
  /\ signing_key = {[id |-> 1, secret |-> "S1"]}
  /\ jwt_secret = "S1"
  /\ allowed_hosts = load_allowed_hosts(rp_origin, ConfiguredHosts)
  /\ sessions = {}
  /\ handoffs = {}
  /\ inflight = EmptyBag
  /\ last = Idle
  /\ redeemed = [c \in 1..MaxUuid |-> 0]

\* the clock advances by one of the given steps
Tick(steps) ==
  /\ ticks < MaxTicks
  /\ \E d \in steps : now' = now + d
  /\ ticks' = ticks + 1
  /\ UNCHANGED <<uuid, auth_challenge, user, passkey, signing_key, jwt_secret,
                 allowed_hosts, sessions, handoffs, inflight, last, redeemed>>

\* DELETE FROM auth_challenge WHERE expires_at < datetime('now'); .ok()
\* a sweep that empties the table
sweep_all(rows, t, ok) == {}

\* a sweep that deletes nothing
sweep_none(rows, t, ok) == rows

\* DELETE FROM auth_challenge WHERE expires_at < datetime('now'), .ok():
\* the rows left; nothing is deleted when the statement fails
sweep_expired(rows, t, ok) ==
  IF ok THEN {r \in rows : ~(r.expires_at < t)} ELSE rows

\* a handed-out token is remembered (the client keeps it)
Remember(tokens) ==
  IF Cardinality(sessions \cup tokens) <= MaxTokens
  THEN sessions \cup tokens ELSE sessions
RememberHandoff(tokens) ==
  IF Cardinality(handoffs \cup tokens) <= MaxTokens
  THEN handoffs \cup tokens ELSE handoffs

\* a request answers at once / suspends / resumes / answers after resuming
Reply(r) == last' = r /\ UNCHANGED inflight
Suspend(r) ==
  /\ inflight' = inflight (+) SetToBag({r})
  /\ UNCHANGED last
Resume(r, q) ==
  /\ inflight' = (inflight (-) SetToBag({r})) (+) SetToBag({q})
  /\ UNCHANGED last
Finish(r, q) ==
  /\ inflight' = inflight (-) SetToBag({r})
  /\ last' = q
CanSuspend == BagCardinality(inflight) < MaxInflight
At(op, step) == {r \in BagToSet(inflight) : r.op = op /\ r.step = step}

\* inputs of the begin endpoints
OriginInputs ==
  {{}, {Origin("https", "b.example", 0)}, {Origin("HTTPS", "DEN.EXAMPLE", 443)},
   {Origin("https", "evil.example", 0)}}
PathInputs == {{}, {<<"/", "a">>}, {<<"/", "/", "a">>}}

Ctx(user_id, is_new_user, redirect_origin, redirect_path) ==
  [user_id |-> user_id, is_new_user |-> is_new_user,
   redirect_origin |-> redirect_origin, redirect_path |-> redirect_path]

\* INSERT INTO auth_challenge (...) VALUES (?, ?, kind, datetime('now', '+5 minutes'))
challenge_row(id, kind, ctx, t) ==
  [id |-> id, kind |-> kind, expires_at |-> t + ChallengeTtl, ctx |-> ctx]

\* a redeem that does not look at expires_at
redeem_any_age(rows, id, kind, t) ==
  {r \in rows : r.id = id /\ r.kind = kind}

\* a redeem that does not look at kind
redeem_any_kind(rows, id, kind, t) ==
  {r \in rows : r.id = id /\ r.expires_at > t}

\* DELETE FROM auth_challenge WHERE id = ? AND kind = ? AND
\* expires_at > datetime('now') RETURNING state: the rows returned
redeem(rows, id, kind, t) ==
  {r \in rows : r.id = id /\ r.kind = kind /\ r.expires_at > t}

\* a redeem that reads the row and leaves it in the table
redeem_keep(rows, id, kind, t) == rows

\* a delete that spares the rows of registrations
redeem_delete_login_only(rows, id, kind, t) ==
  rows \ {r \in redeem(rows, id, kind, t) : r.kind = "authentication"}

\* a delete that does not look at kind
redeem_delete_any_kind(rows, id, kind, t) ==
  {r \in rows : ~(r.id = id /\ r.expires_at > t)}

\* a delete that removes the row of that id whatever its kind and age
redeem_delete_by_id(rows, id, kind, t) == {r \in rows : r.id # id}

\* ... and the table it leaves
redeem_delete(rows, id, kind, t) == rows \ redeem(rows, id, kind, t)

Count(row, cid) ==
  redeemed' = IF row = {} THEN redeemed
              ELSE [redeemed EXCEPT ![cid] = @ + 1]

\* ------------------------------------------------------ request origin
\* A header value is a sequence of comma-separated entries; an entry of a
\* host header is [host, port] (host "" = a blank entry), an entry of
\* x-forwarded-proto is a string ("" = blank).  Surrounding whitespace is
\* not represented: str::trim removes it before any use.

\* origin.rs header_value_first for a host header: first entry, trimmed,
\* dropped when empty
host_value_first(v) ==
  IF v = {} THEN {}
  ELSE IF Head(The(v)).host = "" THEN {} ELSE {Head(The(v))}

\* origin.rs header_value_first for x-forwarded-proto
proto_value_first(v) ==
  IF v = {} THEN {}
  ELSE IF Head(The(v)) = "" THEN {} ELSE {Head(The(v))}

\* origin.rs request_host
request_host(headers) ==
  IF host_value_first(headers.xfh) # {} THEN host_value_first(headers.xfh)
  ELSE host_value_first(headers.host)

\* origin.rs request_origin: format!("{proto}://{host}")
request_origin(headers, fallback_scheme) ==
  LET proto == IF proto_value_first(headers.xfp) # {}
               THEN The(proto_value_first(headers.xfp)) ELSE fallback_scheme
  IN {Origin(proto, h.host, h.port) : h \in request_host(headers)}

\* origin.rs request_fallback_scheme
request_fallback_scheme(headers, rp) ==
  LET rp_fallback == IF rp.scheme = "https" THEN "https" ELSE "http"
      rp_host == origin_host(rp)
      req_host == UNION {normalize_host(h) : h \in request_host(headers)}
  IN
  IF rp_host = {} THEN rp_fallback
  ELSE IF req_host = {} THEN rp_fallback
  ELSE IF The(req_host) = The(rp_host) THEN rp_fallback
  ELSE "http"

\* str::starts_with("https://") on the text of an origin: the scheme is
\* compared as written, letter case included
starts_with_https(o) == o.scheme = "https"

\* a Secure flag taken from the configuration alone
request_secure_cookie_global(headers, fallback) == fallback

\* api/auth.rs request_secure_cookie
request_secure_cookie(headers, fallback) ==
  LET fallback_scheme == IF fallback THEN "https" ELSE "http"
      origin == request_origin(headers, fallback_scheme)
  IN IF origin # {} THEN starts_with_https(The(origin)) ELSE fallback

\* headers of a request that ends a ceremony: one shape, sent to the
\* canonical host through a proxy that reports plain http (SpecCookie runs
\* request_secure_cookie over every shape)
SessionHeaders ==
  {[host |-> {<<[host |-> "den.example", port |-> 0]>>}, xfh |-> {},
    xfp |-> {<<"http">>}]}

\* ---------------------------------------------------------- register_begin
\* sweep; SELECT id, name FROM user LIMIT 1; auth check; user name check;
\* INSERT INTO auth_challenge ... 'registration'
\* a handler that lets every caller through
require_auth_never(existing, auth) == FALSE

\* if existing.is_some() && auth.0.is_none(): UNAUTHORIZED
require_auth(existing, auth) == existing # {} /\ auth = {}

\* oks: the outcomes of the sweep statement that are drawn
register_begin_swept(oks) ==
  /\ uuid + 2 <= MaxUuid
  /\ \E tok \in CookieInputs, name_ok \in BOOLEAN, sweep_ok \in oks :
       LET auth == AuthUser(jwt_secret, tok, now)
           swept == sweep_expired(auth_challenge, now, sweep_ok)
           r == [Idle EXCEPT !.op = "register_begin", !.step = "done",
                             !.tok = tok, !.auth = auth]
       IN
       IF require_auth(user, auth)
       THEN /\ Reply([r EXCEPT !.status = 401])
            /\ auth_challenge' = swept
            /\ UNCHANGED uuid
       ELSE IF user # {}
       THEN \E u \in user :
              /\ auth_challenge' = swept \cup
                   {challenge_row(uuid + 1, "registration",
                                  Ctx(u.id, FALSE, {}, {}), now)}
              /\ uuid' = uuid + 1
              /\ Reply([r EXCEPT !.status = 200, !.cid = uuid + 1])
       ELSE IF ~name_ok
       THEN /\ Reply([r EXCEPT !.status = 400])
            /\ auth_challenge' = swept
            /\ UNCHANGED uuid
       ELSE /\ auth_challenge' = swept \cup
                 {challenge_row(uuid + 2, "registration",
                                Ctx(uuid + 1, TRUE, {}, {}), now)}
            /\ uuid' = uuid + 2
            /\ Reply([r EXCEPT !.status = 200, !.cid = uuid + 2])
  /\ UNCHANGED <<now, ticks, user, passkey, signing_key, jwt_secret, allowed_hosts,
                 sessions, handoffs, redeemed>>

register_begin == register_begin_swept(BOOLEAN)

\* ------------------------------------------------------- register_complete
\* an insert without the NOT EXISTS guard
insert_user_always(rows, id) == rows \cup {[id |-> id]}

\* an insert that replaces the row that is there
replace_user(rows, id) == {[id |-> id]}

\* INSERT INTO user (id, name) SELECT ?, ? WHERE NOT EXISTS (SELECT 1 FROM user):
\* the table it leaves
create_user_if_absent(rows, id) ==
  IF rows = {} THEN rows \cup {[id |-> id]} ELSE rows

\* rowid of a new passkey row
new_passkey_id(rows) ==
  IF rows = {} THEN 1
  ELSE (CHOOSE m \in {r.id : r \in rows} : \A r \in rows : r.id <= m) + 1

\* redeem, decode, auth check, finish_passkey_registration
register_complete ==
  /\ CanSuspend
  /\ Cardinality(passkey)
       + Cardinality(At("register_complete", "rc_user"))
       + Cardinality(At("register_complete", "rc_passkey")) < MaxPasskeys
  /\ \E tok \in CookieInputs, cid \in 1..uuid, cred_ok \in BOOLEAN :
       LET auth == AuthUser(jwt_secret, tok, now)
           row == redeem(auth_challenge, cid, "registration", now)
           r == [Idle EXCEPT !.op = "register_complete", !.cid = cid,
                             !.row = row]
       IN
       /\ auth_challenge' = redeem_delete(auth_challenge, cid, "registration", now)
       /\ Count(row, cid)
       /\ IF row = {} THEN Reply([r EXCEPT !.status = 400])
          ELSE IF ~The(row).ctx.is_new_user /\ auth = {}
          THEN Reply([r EXCEPT !.status = 401])
          ELSE IF ~cred_ok THEN Reply([r EXCEPT !.status = 400])
          ELSE IF The(row).ctx.is_new_user
          THEN Suspend([r EXCEPT !.step = "rc_user"])
          ELSE Suspend([r EXCEPT !.step = "rc_passkey"])
  /\ UNCHANGED <<now, ticks, uuid, user, passkey, signing_key, jwt_secret, allowed_hosts,
                 sessions, handoffs>>

\* an insert that always reports one row
rows_affected_one(before, after) == 1

\* result.rows_affected() of the conditional insert
rows_affected(before, after) == IF after = before THEN 0 ELSE 1

\* the bootstrap guard: conditional insert, 409 when no row was inserted
register_complete_user ==
  /\ \E r \in At("register_complete", "rc_user") :
       LET inserted == create_user_if_absent(user, The(r.row).ctx.user_id) IN
       /\ user' = inserted
       /\ IF rows_affected(user, inserted) = 0
          THEN Finish(r, [r EXCEPT !.step = "done", !.status = 409])
          ELSE Resume(r, [r EXCEPT !.step = "rc_passkey", !.created = TRUE])
  /\ UNCHANGED <<now, ticks, uuid, auth_challenge, passkey, signing_key, jwt_secret,
                 allowed_hosts, sessions, handoffs, redeemed>>

\* INSERT INTO passkey; session cookie on first setup
register_complete_passkey ==
  /\ \E r \in At("register_complete", "rc_passkey"), headers \in SessionHeaders :
       LET ctx == The(r.row).ctx
           secure_cookie == request_secure_cookie(headers, secure_cookies)
           cookie == IF ctx.is_new_user
                     THEN {create_token(jwt_secret, ctx.user_id, now)} ELSE {}
       IN
       /\ passkey' = passkey \cup
            {[id |-> new_passkey_id(passkey), user_id |-> ctx.user_id]}
       /\ sessions' = Remember(cookie)
       /\ Finish(r, [r EXCEPT !.step = "done", !.status = 200,
                              !.cookie = cookie,
                              !.secure = ctx.is_new_user /\ secure_cookie])
  /\ UNCHANGED <<now, ticks, uuid, auth_challenge, user, signing_key, jwt_secret,
                 allowed_hosts, handoffs, redeemed>>

\* --------------------------------------------------------- delete_passkey
\* a delete without the count guard
delete_passkey_rows_unguarded(rows, id, uid) ==
  {r \in rows : r.id = id /\ r.user_id = uid}

\* a delete whose count guard is off by one
delete_passkey_rows_ge1(rows, id, uid) ==
  {r \in rows : /\ r.id = id
                /\ r.user_id = uid
                /\ Cardinality({x \in rows : x.user_id = uid}) >= 1}

\* DELETE FROM passkey WHERE id = ? AND user_id = ?
\*   AND (SELECT COUNT(*) FROM passkey WHERE user_id = ?) > 1
delete_passkey_rows(rows, id, uid) ==
  {r \in rows : /\ r.id = id
                /\ r.user_id = uid
                /\ Cardinality({x \in rows : x.user_id = uid}) > 1}

delete_passkey ==
  /\ CanSuspend
  /\ \E tok \in CookieInputs, id \in 1..(MaxPasskeys + 1) :
       LET auth == AuthUser(jwt_secret, tok, now)
           r == [Idle EXCEPT !.op = "delete_passkey", !.pk = id]
       IN
       IF auth = {}
       THEN Reply([r EXCEPT !.status = 401]) /\ UNCHANGED passkey
       ELSE LET uid == The(auth)
                gone == delete_passkey_rows(passkey, id, uid)
                q == [r EXCEPT
                        !.auth = auth,
                        !.n0 = Cardinality({x \in passkey : x.user_id = uid}),
                        !.owned0 = \E x \in passkey : x.id = id /\ x.user_id = uid]
            IN
            /\ passkey' = passkey \ gone
            /\ IF gone # {}
               THEN Reply([q EXCEPT !.status = 204])
               ELSE Suspend([q EXCEPT !.step = "dp_exists"])
  /\ UNCHANGED <<now, ticks, uuid, auth_challenge, user, signing_key, jwt_secret,
                 allowed_hosts, sessions, handoffs, redeemed>>

\* SELECT EXISTS(SELECT 1 FROM passkey WHERE id = ? AND user_id = ?)
delete_passkey_exists ==
  /\ \E r \in At("delete_passkey", "dp_exists") :
       LET exists == \E x \in passkey : x.id = r.pk /\ x.user_id = The(r.auth)
       IN Finish(r, [r EXCEPT !.step = "done",
                              !.status = IF exists THEN 400 ELSE 404])
  /\ UNCHANGED <<now, ticks, uuid, auth_challenge, user, passkey, signing_key, jwt_secret,
                 allowed_hosts, sessions, handoffs, redeemed>>

\* ------------------------------------------------------------ login_begin
\* a check of redirect_origin without the allow-list
normalize_redirect_origin_unlisted(allowed, origin) ==
  IF origin = {} THEN [err |-> FALSE, val |-> {}]
  ELSE [err |-> normalize_origin(The(origin)) = {},
        val |-> normalize_origin(The(origin))]

\* api/auth.rs normalize_redirect_origin: [err, val]
normalize_redirect_origin(allowed, origin) ==
  IF origin = {} THEN [err |-> FALSE, val |-> {}]
  ELSE LET normalized == normalize_origin(The(origin)) IN
       IF normalized = {} THEN [err |-> TRUE, val |-> {}]
       ELSE IF eq_ignore_ascii_case(The(normalized), rp_origin)
       THEN [err |-> FALSE, val |-> {}]
       ELSE IF origin_host(The(normalized)) = {} THEN [err |-> TRUE, val |-> {}]
       ELSE IF ~(origin_host(The(normalized)) \subseteq allowed)
       THEN [err |-> TRUE, val |-> {}]
       ELSE [err |-> FALSE, val |-> normalized]

\* validate the redirect target; sweep; SELECT user_id, data FROM passkey;
\* INSERT INTO auth_challenge ... 'authentication'
login_begin_swept(origins, oks) ==
  /\ uuid + 1 <= MaxUuid
  /\ \E origin \in origins, path \in PathInputs, sweep_ok \in oks :
       LET ro == normalize_redirect_origin(allowed_hosts, origin)
           redirect_path == IF ro.val = {} THEN {}
                            ELSE {normalize_redirect_path(path)}
           swept == sweep_expired(auth_challenge, now, sweep_ok)
           r == [Idle EXCEPT !.op = "login_begin", !.step = "done",
                             !.origin = origin]
       IN
       IF ro.err
       THEN Reply([r EXCEPT !.status = 400]) /\ UNCHANGED <<auth_challenge, uuid>>
       ELSE IF passkey = {}
       THEN /\ Reply([r EXCEPT !.status = 400])
            /\ auth_challenge' = swept
            /\ UNCHANGED uuid
       ELSE \E first \in passkey :
              /\ auth_challenge' = swept \cup
                   {challenge_row(uuid + 1, "authentication",
                      Ctx(first.user_id, FALSE, ro.val, redirect_path), now)}
              /\ uuid' = uuid + 1
              /\ Reply([r EXCEPT !.status = 200, !.cid = uuid + 1])
  /\ UNCHANGED <<now, ticks, user, passkey, signing_key, jwt_secret, allowed_hosts,
                 sessions, handoffs, redeemed>>

login_begin_from(origins) == login_begin_swept(origins, BOOLEAN)

login_begin == login_begin_from(OriginInputs)

\* redirect_origin values a client can send that are not origins, or not
\* origins of this deployment
MalformedOrigins ==
  {{[ok |-> FALSE, scheme |-> "", cred |-> FALSE, host |-> "", port |-> 0]},
   {Origin("ftp", "b.example", 0)},
   {[Origin("https", "b.example", 0) EXCEPT !.cred = TRUE]},
   {Origin("https", "", 0)},
   {Origin("https", "b.example", 8443)}}

\* --------------------------------------------------------- login_complete
\* a URL that always points at the canonical origin
redirect_complete_url_canonical(target_origin, token) ==
  [origin |-> rp_origin, path |-> "/api/auth/redirect/complete",
   token |-> token]

\* api/auth.rs redirect_complete_url:
\* {target_origin}/api/auth/redirect/complete?token=...
redirect_complete_url(target_origin, token) ==
  [origin |-> target_origin, path |-> "/api/auth/redirect/complete",
   token |-> token]

\* redeem, finish_passkey_authentication, session cookie, handoff token
login_complete_from(requests) ==
  /\ \E cid \in 1..uuid, cred_ok \in BOOLEAN, headers \in requests :
       LET row == redeem(auth_challenge, cid, "authentication", now)
           secure_cookie == request_secure_cookie(headers, secure_cookies)
           r == [Idle EXCEPT !.op = "login_complete", !.step = "done",
                             !.cid = cid, !.row = row]
       IN
       /\ auth_challenge' = redeem_delete(auth_challenge, cid, "authentication", now)
       /\ Count(row, cid)
       /\ IF row = {}
          THEN Reply([r EXCEPT !.status = 400])
               /\ UNCHANGED <<sessions, handoffs>>
          ELSE IF ~cred_ok
          THEN Reply([r EXCEPT !.status = 401])
               /\ UNCHANGED <<sessions, handoffs>>
          ELSE LET ctx == The(row).ctx
                   cookie == {create_token(jwt_secret, ctx.user_id, now)}
                   target_path == IF ctx.redirect_path = {} THEN <<"/">>
                                  ELSE The(ctx.redirect_path)
                   token == IF ctx.redirect_origin = {} THEN {}
                            ELSE {issue_login_redirect_token(jwt_secret,
                                    ctx.user_id, The(ctx.redirect_origin),
                                    target_path, now)}
                   url == {redirect_complete_url(The(ctx.redirect_origin), k) :
                             k \in token}
               IN
               /\ sessions' = Remember(cookie)
               /\ handoffs' = RememberHandoff(token)
               /\ Reply([r EXCEPT !.status = 200, !.cookie = cookie,
                                  !.secure = secure_cookie, !.url = url])
  /\ UNCHANGED <<now, ticks, uuid, user, passkey, signing_key, jwt_secret,
                 allowed_hosts>>

login_complete == login_complete_from(SessionHeaders)

\* headers a login_complete request can carry: another host, a forwarded
\* host, a forwarded scheme
LoginHeaders ==
  SessionHeaders \cup
  {[host |-> {<<[host |-> "evil.example", port |-> 0]>>},
    xfh |-> {<<[host |-> "evil.example", port |-> 0]>>},
    xfp |-> {<<"https">>}],
   [host |-> {<<[host |-> "b.example", port |-> 0]>>}, xfh |-> {}, xfp |-> {}]}

\* a target check without the allow-list
normalize_redirect_target_origin_any(allowed, origin) ==
  [err |-> normalize_origin(origin) = {}, val |-> normalize_origin(origin)]

\* api/auth.rs normalize_redirect_target_origin: [err, val]
normalize_redirect_target_origin(allowed, origin) ==
  LET normalized == normalize_origin(origin) IN
  IF normalized = {} THEN [err |-> TRUE, val |-> {}]
  ELSE IF eq_ignore_ascii_case(The(normalized), rp_origin)
  THEN [err |-> FALSE, val |-> {rp_origin}]
  ELSE IF origin_host(The(normalized)) = {} THEN [err |-> TRUE, val |-> {}]
  ELSE IF ~(origin_host(The(normalized)) \subseteq allowed)
  THEN [err |-> TRUE, val |-> {}]
  ELSE [err |-> FALSE, val |-> normalized]

\* --------------------------------------------------------- redirect_start
TargetInputs ==
  {Origin("https", "b.example", 0), Origin("https", "evil.example", 0),
   Origin("https", "den.example", 0), Origin("ftp", "b.example", 0)}

\* observer's note, not program state: the response before this one was a
\* logout sent with the same cookie
logged_out_before(prev, tok) ==
  prev.op = "logout" /\ prev.tok = tok /\ tok # {}

redirect_start_from(targets, paths) ==
  /\ \E tok \in CookieInputs, origin \in targets, path \in paths :
       LET auth == AuthUser(jwt_secret, tok, now)
           target == normalize_redirect_target_origin(allowed_hosts, origin)
           target_path == normalize_redirect_path(path)
           r == [Idle EXCEPT !.op = "redirect_start", !.step = "done",
                             !.tok = tok, !.auth = auth, !.at = now,
                             !.origin = {origin},
                             !.seen = logged_out_before(last, tok)]
       IN
       IF auth = {}
       THEN Reply([r EXCEPT !.status = 401]) /\ UNCHANGED handoffs
       ELSE IF target.err
       THEN Reply([r EXCEPT !.status = 400]) /\ UNCHANGED handoffs
       ELSE LET token == issue_login_redirect_token(jwt_secret, The(auth),
                           The(target.val), target_path, now)
            IN /\ handoffs' = RememberHandoff({token})
               /\ Reply([r EXCEPT !.status = 200,
                    !.url = {redirect_complete_url(The(target.val), token)}])
  /\ UNCHANGED <<now, ticks, uuid, auth_challenge, user, passkey, signing_key, jwt_secret,
                 allowed_hosts, sessions, redeemed>>

redirect_start == redirect_start_from(TargetInputs, PathInputs)

\* ----------------------------------------------------------------- logout
\* jar.remove(den_session): the response tells the client to drop the
\* cookie when the request carried one; the token is not looked at and
\* nothing is stored
logout ==
  /\ \E tok \in CookieInputs :
       Reply([Idle EXCEPT !.op = "logout", !.step = "done", !.status = 200,
                          !.tok = tok, !.at = now])
  /\ UNCHANGED <<now, ticks, uuid, auth_challenge, user, passkey, signing_key,
                 jwt_secret, allowed_hosts, sessions, handoffs, redeemed>>

\* ------------------------------------------------------ redirect_complete
\* an audience check that compares the host only
aud_matches_host_only(claims, origin) ==
  Lower(claims.aud.host) = Lower(origin.host)

\* claims.aud.eq_ignore_ascii_case(&origin)
aud_matches(claims, origin) == eq_ignore_ascii_case(claims.aud, origin)

\* no allow-list check
aud_allowed_skip(claims, allowed) == TRUE

\* origin_host(&claims.aud) is in state.allowed_hosts
aud_allowed(claims, allowed) ==
  origin_host(claims.aud) # {} /\ origin_host(claims.aud) \subseteq allowed

\* handoff tokens a client can present: one it was given, or one signed
\* with a key that is not the server's
ForgedHandoff(t) ==
  {[h EXCEPT !.key = k, !.iat = t, !.exp = t + HandoffTtl] :
     h \in handoffs, k \in Secrets \ {jwt_secret}}
HandoffInputs == handoffs \cup ForgedHandoff(now)

HostEntries ==
  {[host |-> "den.example", port |-> 0], [host |-> "B.EXAMPLE", port |-> 443],
   [host |-> "", port |-> 0]}
HeaderInputs ==
  {[host |-> h, xfh |-> x, xfp |-> s] :
     h \in {{<<e>>} : e \in HostEntries},
     x \in {{}, {<<[host |-> "b.example", port |-> 0]>>}},
     s \in {{}, {<<"https", "http">>}}}

\* a redirect that ignores the token's path
complete_redirect_path_root(claims) == <<"/">>

\* let redirect_path = normalize_redirect_path(Some(&claims.path))
complete_redirect_path(claims) == normalize_redirect_path({claims.path})

\* observer's note, not program state: the response before this one was
\* a redirect_complete that accepted the same token
presented_before(prev, token) ==
  prev.op = "redirect_complete" /\ prev.status = 303 /\ prev.htok = {token}

redirect_complete ==
  /\ \E token \in HandoffInputs, headers \in HeaderInputs :
       LET fallback_scheme == request_fallback_scheme(headers, rp_origin)
           origin == request_origin(headers, fallback_scheme)
           r == [Idle EXCEPT !.op = "redirect_complete", !.step = "done",
                             !.htok = {token}, !.origin = origin, !.at = now]
       IN
       IF ~jwt_valid(jwt_secret, token, now)
       THEN Reply([r EXCEPT !.status = 401])
       ELSE IF ~eq_ignore_ascii_case(token.iss, rp_origin)
       THEN Reply([r EXCEPT !.status = 401])
       ELSE IF origin = {}
       THEN Reply([r EXCEPT !.status = 400])
       ELSE IF ~aud_matches(token, The(origin))
       THEN Reply([r EXCEPT !.status = 401])
       ELSE IF ~aud_allowed(token, allowed_hosts)
       THEN Reply([r EXCEPT !.status = 401])
       ELSE LET cookie == {create_token(jwt_secret, token.sub, now)} IN
            Reply([r EXCEPT !.status = 303, !.cookie = cookie,
                            !.seen = presented_before(last, token),
                            !.secure = starts_with_https(The(origin)),
                            !.location = complete_redirect_path(token)])
  /\ UNCHANGED <<now, ticks, uuid, auth_challenge, user, passkey, signing_key, jwt_secret,
                 allowed_hosts, sessions, handoffs, redeemed>>

\* ------------------------------------------------------------- restart
\* main.rs main: the process starts again on the same database with the
\* configuration file as it is then; init_jwt_secret loads the stored key
ConfigInputs == SUBSET ConfiguredHosts

Restart ==
  /\ \E configured \in ConfigInputs :
       allowed_hosts' = load_allowed_hosts(rp_origin, configured)
  /\ stored_secret(signing_key) # {}
  /\ jwt_secret' = The(stored_secret(signing_key))
  /\ inflight' = EmptyBag
  /\ last' = Idle
  /\ UNCHANGED <<now, ticks, uuid, auth_challenge, user, passkey, signing_key,
                 sessions, handoffs, redeemed>>

\* ------------------------------------------------------- init_jwt_secret
\* A process starts on the database while others may be starting or
\* serving: the SELECT, and either the stored key is loaded (the process
\* then serves with it) or a key is generated and the start goes on to the
\* INSERT
init_jwt_secret ==
  /\ LET existing == stored_secret(signing_key)
         r == [Idle EXCEPT !.op = "init_jwt_secret"]
     IN
     IF existing # {}
     THEN /\ jwt_secret' = The(existing)
          /\ Reply([r EXCEPT !.step = "done", !.status = 200, !.ret = existing])
     ELSE /\ CanSuspend
          /\ \E secret \in Secrets : Suspend([r EXCEPT !.step = "insert",
                                                       !.ret = {secret}])
          /\ UNCHANGED jwt_secret
  /\ UNCHANGED <<now, ticks, uuid, auth_challenge, user, passkey, signing_key,
                 allowed_hosts, sessions, handoffs, redeemed>>

\* INSERT INTO signing_key (id, secret) VALUES (1, ?) ... .unwrap(): the
\* process serves with the key it stored, or panics when the row is refused
init_jwt_secret_insert ==
  /\ \E r \in At("init_jwt_secret", "insert") :
       LET inserted == insert_signing_key(signing_key, The(r.ret)) IN
       /\ signing_key' = inserted.rows
       /\ IF inserted.ok
          THEN /\ jwt_secret' = The(r.ret)
               /\ Finish(r, [r EXCEPT !.step = "done", !.status = 200])
          ELSE /\ UNCHANGED jwt_secret
               /\ Finish(r, [r EXCEPT !.step = "panic", !.ret = {}])
  /\ UNCHANGED <<now, ticks, uuid, auth_challenge, user, passkey,
                 allowed_hosts, sessions, handoffs, redeemed>>

\* ------------------------------------------- functions checked on their own
\* the state before a call: the arguments are drawn, nothing has run
Called(a) == [Idle EXCEPT !.op = "call", !.args = {a}]
Quiet ==
  /\ now = 0
  /\ ticks = 0
  /\ uuid = 0
  /\ auth_challenge = {}
  /\ user = {}
  /\ passkey = {}
  /\ signing_key = {[id |-> 1, secret |-> "S1"]}
  /\ jwt_secret = "S1"
  /\ sessions = {}
  /\ handoffs = {}
  /\ inflight = EmptyBag
  /\ redeemed = [c \in 1..MaxUuid |-> 0]
Returns(r) ==
  /\ last' = r
  /\ UNCHANGED <<now, ticks, uuid, auth_challenge, user, passkey, signing_key, jwt_secret,
                 allowed_hosts, sessions, handoffs, inflight, redeemed>>

\* strings of at most n characters over the alphabet chars
RECURSIVE Strings(_, _)
Strings(chars, n) ==
  IF n = 0 THEN {<<>>}
  ELSE LET shorter == Strings(chars, n - 1) IN
       shorter \cup {Append(w, c) : w \in shorter, c \in chars}

\* normalize_redirect_path(path: Option<&str>)
PathChars == {"/", "\\", " ", "a"}
PathArgs == {{}} \cup {{w} : w \in Strings(PathChars, MaxLen)}

InitPath ==
  /\ Quiet
  /\ allowed_hosts = load_allowed_hosts(rp_origin, ConfiguredHosts)
  /\ last \in {Called([path |-> p]) : p \in PathArgs}

call_normalize_redirect_path ==
  /\ last.op = "call"
  /\ Returns([last EXCEPT !.op = "normalize_redirect_path", !.step = "done",
                          !.ret = {normalize_redirect_path(The(last.args).path)}])

SpecPath == InitPath /\ [][call_normalize_redirect_path]_vars

\* request_fallback_scheme(headers, rp_origin), request_origin(headers,
\* fallback_scheme)
ResolverEntries ==
  {[host |-> "den.example", port |-> 0], [host |-> "DEN.EXAMPLE", port |-> 0],
   [host |-> "den.example", port |-> 80], [host |-> "b.example", port |-> 0],
   [host |-> "", port |-> 0]}
ResolverHosts ==
  {{}} \cup {{<<e>>} : e \in ResolverEntries}
       \cup {{<<[host |-> "", port |-> 0], [host |-> "b.example", port |-> 0]>>},
             {<<[host |-> "b.example", port |-> 0],
                [host |-> "den.example", port |-> 0]>>}}
ResolverForwardedHosts ==
  {{}, {<<[host |-> "b.example", port |-> 0]>>},
   {<<[host |-> "", port |-> 0], [host |-> "b.example", port |-> 0]>>},
   {<<[host |-> "DEN.EXAMPLE", port |-> 0], [host |-> "b.example", port |-> 0]>>}}
ResolverProtos == {{}, {<<"https">>}, {<<"", "https">>}, {<<"http", "https">>}}
ResolverArgs ==
  {[headers |-> [host |-> h, xfh |-> x, xfp |-> s], rp |-> rp, fallback |-> f] :
     h \in ResolverHosts, x \in ResolverForwardedHosts, s \in ResolverProtos,
     rp \in {Origin("https", "den.example", 0), Origin("http", "den.example", 0)},
     f \in {"http", "https"}}

InitOrigin ==
  /\ Quiet
  /\ allowed_hosts = load_allowed_hosts(rp_origin, ConfiguredHosts)
  /\ last \in {Called(a) : a \in ResolverArgs}

call_request_fallback_scheme ==
  /\ last.op = "call"
  /\ Returns([last EXCEPT
       !.op = "request_fallback_scheme", !.step = "done",
       !.ret = {request_fallback_scheme(The(last.args).headers,
                                        The(last.args).rp)}])

call_request_origin ==
  /\ last.op = "call"
  /\ Returns([last EXCEPT
       !.op = "request_origin", !.step = "done",
       !.ret = {request_origin(The(last.args).headers,
                               The(last.args).fallback)}])

NextOrigin ==
  \/ call_request_fallback_scheme
  \/ call_request_origin

SpecOrigin == InitOrigin /\ [][NextOrigin]_vars

\* the Secure flag of the session cookie: request_secure_cookie(&headers,
\* state.secure_cookies) in login_complete and register_complete, and
\* origin.starts_with("https://") in redirect_complete, under either
\* configured canonical origin
CookieHosts ==
  {{}, {<<[host |-> "", port |-> 0]>>},
   {<<[host |-> "den.example", port |-> 0]>>},
   {<<[host |-> "b.example", port |-> 0]>>}}
CookieProtos == {{}, {<<"https">>}, {<<"http">>}, {<<"https", "http">>}}
CookieArgs ==
  {[headers |-> [host |-> h, xfh |-> x, xfp |-> s], rp |-> rp] :
     h \in CookieHosts,
     x \in {{}, {<<[host |-> "b.example", port |-> 0]>>}},
     s \in CookieProtos,
     rp \in {Origin("https", "den.example", 0), Origin("http", "den.example", 0)}}

InitCookie ==
  /\ Quiet
  /\ allowed_hosts = load_allowed_hosts(rp_origin, ConfiguredHosts)
  /\ last \in {Called(a) : a \in CookieArgs}

\* main.rs: secure_cookies = rp_origin.starts_with("https://"); the handler
\* passes it to request_secure_cookie and hands the result to session_cookie
call_request_secure_cookie ==
  /\ last.op = "call"
  /\ LET a == The(last.args)
         fallback == starts_with_https(a.rp)
         secure_cookie == request_secure_cookie(a.headers, fallback)
     IN Returns([last EXCEPT
          !.op = "request_secure_cookie", !.step = "done",
          !.origin = request_origin(a.headers,
                                    IF fallback THEN "https" ELSE "http"),
          !.secure = secure_cookie, !.ret = {secure_cookie}])

\* api/auth.rs redirect_complete: the origin of the request and the flag of
\* the cookie built for it; no host, no cookie (400)
call_redirect_complete_cookie ==
  /\ last.op = "call"
  /\ LET a == The(last.args)
         origin == request_origin(a.headers,
                                  request_fallback_scheme(a.headers, a.rp))
         r == [last EXCEPT !.op = "redirect_complete_cookie", !.step = "done",
                           !.origin = origin]
     IN IF origin = {}
        THEN Returns([r EXCEPT !.status = 400])
        ELSE Returns([r EXCEPT !.secure = starts_with_https(The(origin)),
                               !.ret = {starts_with_https(The(origin))}])

NextCookie ==
  \/ call_request_secure_cookie
  \/ call_redirect_complete_cookie

SpecCookie == InitCookie /\ [][NextCookie]_vars

\* ------------------------------------------- canonical-origin middleware
\* A request path is the sequence of pieces whose concatenation is its text
\* ("/login/x" = <<"/login", "/x">>, "/loginx" = <<"/login", "x">>); a piece
\* never has a route as a proper prefix.  A query is the sequence of its
\* key=value pairs; form tells how the pair is written ("canon" = the way
\* form_urlencoded::Serializer writes it, "pct" = another percent-encoding
\* of the same key and value).
StartsWithSlash(piece) == piece \in {"/", "/x", "/login", "/setup", "/api"}

\* a match on the prefix alone
path_matches_prefix(path, route) == Len(path) >= 1 /\ path[1] = route

\* middleware.rs path_matches
path_matches(path, route) ==
  \/ path = <<route>>
  \/ Len(path) >= 2 /\ path[1] = route /\ StartsWithSlash(path[2])

\* middleware.rs canonical_auth_path
canonical_auth_path(path) ==
  path_matches(path, "/login") \/ path_matches(path, "/setup")

\* format!("{proto}://{host}") as text
origin_text(o) ==
  o.scheme \o "://" \o o.host \o
    (IF o.port = 0 THEN "" ELSE ":" \o ToString(o.port))

\* form_urlencoded::parse: the decoded (key, value) pairs
RECURSIVE parse_query(_)
parse_query(query) ==
  IF query = <<>> THEN <<>>
  ELSE <<[key |-> Head(query).key, value |-> Head(query).value]>>
         \o parse_query(Tail(query))

\* serializer.append_pair
append_pair(out, key, value) ==
  Append(out, [key |-> key, value |-> value, form |-> "canon"])

\* a loop that forwards every pair
RECURSIVE forward_pairs_all(_, _, _)
forward_pairs_all(out, pairs, is_login_path) ==
  IF pairs = <<>> THEN out
  ELSE forward_pairs_all(append_pair(out, Head(pairs).key, Head(pairs).value),
                         Tail(pairs), is_login_path)

\* the loop over the parsed pairs of the request's query
RECURSIVE forward_pairs(_, _, _)
forward_pairs(out, pairs, is_login_path) ==
  IF pairs = <<>> THEN out
  ELSE LET p == Head(pairs) IN
       IF p.key = "redirect_origin"
       THEN forward_pairs(out, Tail(pairs), is_login_path)
       ELSE IF p.key = "redirect_path" /\ ~is_login_path
       THEN forward_pairs(out, Tail(pairs), is_login_path)
       ELSE forward_pairs(append_pair(out, p.key, p.value), Tail(pairs),
                          is_login_path)

\* an injection that does not look at the allow-list
injects_redirect_origin_any_host(is_login_path, origin, allowed) ==
  is_login_path /\ origin_host(origin) # {}

\* is_login_path && origin_host.is_some_and(|host| allowed_hosts.contains(host))
injects_redirect_origin(is_login_path, origin, allowed) ==
  /\ is_login_path
  /\ origin_host(origin) # {}
  /\ origin_host(origin) \subseteq allowed

\* a comparison that minds the case
already_canonical_exact(origin, rp) == origin = rp

\* origin.eq_ignore_ascii_case(&state.rp_origin)
already_canonical(origin, rp) == eq_ignore_ascii_case(origin, rp)

\* the requests drawn
RoutePaths ==
  {<<"/login">>, <<"/login", "/">>, <<"/login", "/x">>, <<"/login", "x">>,
   <<"/setup">>, <<"/setup", "/x">>, <<"/">>, <<"/api", "/login">>}
QueryPairs ==
  {[key |-> "redirect_origin", value |-> "https://evil.example", form |-> "canon"],
   [key |-> "redirect_path", value |-> "/a", form |-> "canon"],
   [key |-> "next", value |-> "x", form |-> "canon"],
   [key |-> "next", value |-> "y", form |-> "pct"]}
QueryInputs == Strings(QueryPairs, MaxQuery)
FollowQueries == Strings(QueryPairs, 1)
RouteHosts ==
  {[host |-> "den.example", port |-> 0], [host |-> "DEN.EXAMPLE", port |-> 0],
   [host |-> "b.example", port |-> 0], [host |-> "evil.example", port |-> 0],
   [host |-> "", port |-> 0]}
RouteHeaders ==
  {[host |-> {<<h>>}, xfh |-> {}, xfp |-> s] :
     h \in RouteHosts, s \in {{}, {<<"https">>}}}

InitMiddleware ==
  /\ Quiet
  /\ allowed_hosts \in {load_allowed_hosts(rp_origin, c) : c \in ConfigInputs}
  /\ last \in {Called([path |-> p, query |-> q, headers |-> h]) :
                 p \in RoutePaths, q \in QueryInputs, h \in RouteHeaders}

\* middleware.rs enforce_canonical_auth_origin; step "next" = next.run(request);
\* rp = state.rp_origin
enforce_canonical_auth_origin_at(rp) ==
  /\ last.op = "call"
  /\ LET request == The(last.args)
         path == request.path
         is_login_path == path_matches(path, "/login")
         fallback_scheme == request_fallback_scheme(request.headers, rp)
         origin == request_origin(request.headers, fallback_scheme)
         r == [last EXCEPT !.op = "enforce_canonical_auth_origin"]
     IN
     IF ~canonical_auth_path(path)
     THEN Returns([r EXCEPT !.step = "next"])
     ELSE IF origin = {}
     THEN Returns([r EXCEPT !.step = "next"])
     ELSE IF already_canonical(The(origin), rp)
     THEN Returns([r EXCEPT !.step = "next", !.origin = origin])
     ELSE
       LET pairs == parse_query(request.query)
           forwarded == forward_pairs(<<>>, pairs, is_login_path)
           given_origin ==
             is_login_path /\ \E i \in 1..Len(pairs) : pairs[i].key = "redirect_origin"
           has_redirect_path ==
             is_login_path /\ \E i \in 1..Len(pairs) : pairs[i].key = "redirect_path"
           inject == injects_redirect_origin(is_login_path, The(origin), allowed_hosts)
           with_origin == IF inject
                          THEN append_pair(forwarded, "redirect_origin",
                                           origin_text(The(origin)))
                          ELSE forwarded
           has_redirect_origin == given_origin \/ inject
           query == IF is_login_path /\ has_redirect_origin /\ ~has_redirect_path
                    THEN append_pair(with_origin, "redirect_path", "/")
                    ELSE with_origin
       IN Returns([r EXCEPT !.step = "done", !.status = 307, !.origin = origin,
                            !.ret = {[origin |-> rp, path |-> path,
                                      query |-> query]}])

enforce_canonical_auth_origin == enforce_canonical_auth_origin_at(rp_origin)

SpecMiddleware == InitMiddleware /\ [][enforce_canonical_auth_origin]_vars

\* canonical origins a deployment can be configured with, as main.rs
\* keeps them (Url::origin().ascii_serialization(): the port is written
\* when it is not the default port of the scheme)
CanonicalOrigins ==
  {Origin("https", "den.example", 0), Origin("http", "den.example", 0),
   Origin("https", "den.example", 80), Origin("http", "den.example", 8080)}

\* a deployment with one of these origins receives a request
InitFollow ==
  /\ Quiet
  /\ \E rp \in CanonicalOrigins :
       /\ allowed_hosts \in {load_allowed_hosts(rp, c) : c \in ConfigInputs}
       /\ last \in {Called([path |-> p, query |-> q, headers |-> h, rp |-> rp]) :
                      p \in RoutePaths, q \in FollowQueries, h \in RouteHeaders}

\* the middleware of that deployment
enforce_canonical_auth_origin_of_request ==
  \E rp \in CanonicalOrigins :
    /\ last.args # {} /\ The(last.args).rp = rp
    /\ enforce_canonical_auth_origin_at(rp)

\* Redirect::temporary(&redirect_url): the client follows the 307 and asks
\* the canonical origin for the same path with the query of the redirect;
\* the Host header is the host and port of the URL, and the request reaches
\* the service without forwarded headers.  seen is the observer's note
\* that the request follows a redirect
follow_redirect ==
  /\ last.op = "enforce_canonical_auth_origin"
  /\ last.status = 307 /\ last.ret # {}
  /\ LET location == The(last.ret)
         headers == [host |-> {<<[host |-> location.origin.host,
                                  port |-> location.origin.port]>>},
                     xfh |-> {}, xfp |-> {}]
     IN Returns([Called([path |-> location.path, query |-> location.query,
                         headers |-> headers, rp |-> The(last.args).rp])
                   EXCEPT !.seen = TRUE])

NextFollow ==
  \/ enforce_canonical_auth_origin_of_request
  \/ follow_redirect

SpecFollow == InitFollow /\ [][NextFollow]_vars

\* ---------------------------------------------------------------- specs
CeremonySteps == {ChallengeTtl}

\* ceremony store and bootstrap guard
Next ==
  \/ Tick(CeremonySteps)
  \/ register_begin
  \/ register_complete
  \/ register_complete_user
  \/ register_complete_passkey
  \/ login_begin
  \/ login_complete

Spec == Init /\ [][Next]_vars

\* the ceremonies with one request at a time: a request that has started
\* runs to its answer before the next step of anything else
NextCeremonySeq ==
  /\ Next
  /\ BagCardinality(inflight') <= 1
  /\ inflight # EmptyBag => inflight' # inflight

SpecCeremonySeq == Init /\ [][NextCeremonySeq]_vars

\* passkey management: registrations and deletions, any interleaving
NextPasskey ==
  \/ register_begin
  \/ register_complete
  \/ register_complete_user
  \/ register_complete_passkey
  \/ delete_passkey
  \/ delete_passkey_exists

SpecPasskey == Init /\ [][NextPasskey]_vars

\* the same requests served one at a time
NextPasskeySeq ==
  /\ NextPasskey
  /\ BagCardinality(inflight') <= 1
  /\ inflight # EmptyBag => inflight' # inflight

SpecPasskeySeq == Init /\ [][NextPasskeySeq]_vars

\* handoff: the state after the first registration (uuid 1 = the user,
\* uuid 2 = its challenge), the user holding the session cookie of it
InitHandoff ==
  /\ now = 0
  /\ ticks = 0
  /\ uuid = 2
  /\ auth_challenge = {}
  /\ user = {[id |-> 1]}
  /\ passkey = {[id |-> 1, user_id |-> 1]}
  /\ signing_key = {[id |-> 1, secret |-> "S1"]}
  /\ jwt_secret = "S1"
  /\ allowed_hosts = load_allowed_hosts(rp_origin, ConfiguredHosts)
  /\ sessions = {create_token("S1", 1, 0)}
  /\ handoffs = {}
  /\ inflight = EmptyBag
  /\ last = Idle
  /\ redeemed = [c \in 1..MaxUuid |-> IF c = 2 THEN 1 ELSE 0]

HandoffSteps == {HandoffTtl, HandoffTtl + Leeway}

\* targets and paths asked of redirect_start before a handoff: one of each
\* kind the handler tells apart
HandoffTargets ==
  {Origin("https", "b.example", 0), Origin("https", "evil.example", 0),
   Origin("https", "den.example", 0)}
HandoffPaths == {{}, {<<"/", "a">>}}

NextHandoff ==
  \/ Tick(HandoffSteps)
  \/ Restart
  \/ redirect_start_from(HandoffTargets, HandoffPaths)
  \/ redirect_complete

SpecHandoff == InitHandoff /\ [][NextHandoff]_vars

\* session lifetime: the user of InitHandoff calls an authenticated endpoint
\* around the expiry of the cookie
SessionSteps == {Leeway, SessionTtl}

NextSession ==
  \/ Tick(SessionSteps)
  \/ redirect_start
  \/ logout

SpecSession == InitHandoff /\ [][NextSession]_vars

\* login_begin with every kind of redirect_origin, once the user of
\* InitHandoff has a passkey
NextLoginBegin ==
  \/ Tick(CeremonySteps)
  \/ login_begin_from(OriginInputs \cup MalformedOrigins)

SpecLoginBegin == InitHandoff /\ [][NextLoginBegin]_vars

\* login with a handoff target: the user of InitHandoff begins logins with
\* and without a target and completes them with requests of every shape
NextLogin ==
  \/ Tick(CeremonySteps)
  \/ login_begin
  \/ login_complete_from(LoginHeaders)

SpecLogin == InitHandoff /\ [][NextLogin]_vars

\* issuing handoff tokens: the user of InitHandoff logs in with a target
\* or asks for a handoff, and the service may be restarted with another
\* configuration while a ceremony is pending
NextIssue ==
  \/ Restart
  \/ login_begin
  \/ login_complete
  \/ redirect_start_from(HandoffTargets, PathInputs)

SpecIssue == InitHandoff /\ [][NextIssue]_vars

\* abandoned ceremonies: ceremonies are begun, before the first
\* registration or by the user of InitHandoff, and none is completed, while
\* the clock passes their expiry
SweepSteps == {ChallengeTtl, 1}

InitSweep == Init \/ InitHandoff

NextSweep ==
  \/ Tick(SweepSteps)
  \/ register_begin
  \/ login_begin_from(OriginInputs \cup MalformedOrigins)

SpecSweep == InitSweep /\ [][NextSweep]_vars

\* the signing key: processes start, one after another or together, on a
\* database that is new or on the one of InitHandoff, and the process that
\* serves answers redirect_start
InitSecret ==
  \/ InitHandoff
  \/ /\ now = 0
     /\ ticks = 0
     /\ uuid = 0
     /\ auth_challenge = {}
     /\ user = {}
     /\ passkey = {}
     /\ signing_key = {}
     /\ jwt_secret = NoSecret
     /\ allowed_hosts = load_allowed_hosts(rp_origin, ConfiguredHosts)
     /\ sessions = {}
     /\ handoffs = {}
     /\ inflight = EmptyBag
     /\ last = Idle
     /\ redeemed = [c \in 1..MaxUuid |-> 0]

NextSecret ==
  \/ init_jwt_secret
  \/ init_jwt_secret_insert
  \/ jwt_secret # NoSecret /\ redirect_start

SpecSecret == InitSecret /\ [][NextSecret]_vars

\* ================================================================ claims
CompleteOps == {"register_complete", "login_complete"}
KindOf(op) == IF op = "register_complete" THEN "registration" ELSE "authentication"
Holders == {r \in BagToSet(inflight) \cup {last} : r.op \in CompleteOps /\ r.row # {}}
FirstUser(r) ==
  r.op = "register_complete" /\ r.row # {} /\ The(r.row).ctx.is_new_user
UserOf(r) == {[id |-> The(r.row).ctx.user_id]}
PasskeysOf(uid) == {x \in passkey : x.user_id = uid}

\* C1: for every challenge id at most one register_complete / login_complete
\* call is handed the ceremony row, under any interleaving; a call that is
\* not handed the row is rejected (400), also within the TTL window
C1_RedeemAtMostOnce ==
  /\ \A c \in 1..MaxUuid : redeemed[c] <= 1
  /\ \A r \in Holders :
       /\ The(r.row).id = r.cid
       /\ redeemed[r.cid] = 1
       /\ \A x \in auth_challenge : x.id # r.cid
  /\ (last.op \in CompleteOps /\ last.row = {}) => last.status = 400

\* a call is rejected for an id whose row another, still running call
\* holds, before the row's expiry
C1_Witness ==
  \E r \in BagToSet(inflight) :
    /\ r.op = "register_complete" /\ r.row # {}
    /\ The(r.row).expires_at > now
    /\ last.op = "register_complete" /\ last.cid = r.cid
    /\ last.row = {} /\ last.status = 400

\* C2: a ceremony row whose expires_at is not in the future is never handed
\* to a call; the call is rejected with 400 while the row is still in the
\* table (not swept, or the sweep failed)
C2_ExpiredNeverRedeemed ==
  [][/\ \A c \in 1..MaxUuid :
          redeemed'[c] > redeemed[c] =>
            \E r \in auth_challenge : r.id = c /\ r.expires_at > now
     /\ \A r \in auth_challenge :
          (/\ r.expires_at <= now
           /\ last' # last
           /\ last'.op \in CompleteOps
           /\ last'.cid = r.id)
          => (last'.status = 400 /\ last'.row = {})]_vars

\* a call of the row's own kind was rejected although the expired row is
\* still in the table
C2_Witness ==
  /\ last.op \in CompleteOps /\ last.status = 400
  /\ \E r \in auth_challenge :
       r.id = last.cid /\ r.kind = KindOf(last.op) /\ r.expires_at < now

\* C3: of the register_complete calls that hold a first-user ceremony, the
\* one that passes the bootstrap guard owns the only user row, and a call
\* that does not is answered 409 and the user row is not its own
C3_FirstUserRace ==
  /\ Cardinality(user) <= 1
  /\ \A r \in At("register_complete", "rc_passkey") :
       FirstUser(r) =>
         r.created /\ CopiesIn(r, inflight) = 1 /\ user = UserOf(r)
  /\ (FirstUser(last) /\ last.status = 409) =>
       ~last.created /\ user # {} /\ user # UserOf(last)
  /\ (FirstUser(last) /\ last.status = 200) =>
       last.created /\ user = UserOf(last)
  /\ (FirstUser(last) /\ last.created) => last.status = 200

\* the loser was answered 409 while the winner is still between its user
\* insert and its passkey insert
C3_Witness ==
  /\ FirstUser(last) /\ last.status = 409
  /\ \E r \in At("register_complete", "rc_passkey") :
       FirstUser(r) /\ r.created /\ user = UserOf(r)

\* C4: the user table never holds more than one row, and a user row, once
\* there, is never deleted or replaced
C4_SingleUser ==
  /\ [](Cardinality(user) <= 1)
  /\ [][user # {} => user' = user]_vars

\* a second first-user registration ran into the existing row
C4_Witness ==
  /\ Cardinality(user) = 1
  /\ last.op = "register_complete" /\ last.status = 409
  /\ passkey # {}

\* C5: delete_passkey by the owner, requests served one at a time: the only
\* credential -> 400 and it remains; one of two -> 204 and exactly one
\* remains; an id that is not the user's -> 404
C5_DeletePasskey ==
  (last.op = "delete_passkey" /\ last.auth # {}) =>
    /\ (last.owned0 /\ last.n0 = 1) =>
         /\ last.status = 400
         /\ \E x \in PasskeysOf(The(last.auth)) : x.id = last.pk
    /\ (last.owned0 /\ last.n0 = 2) =>
         /\ last.status = 204
         /\ Cardinality(PasskeysOf(The(last.auth))) = 1
         /\ \A x \in passkey : x.id # last.pk
    /\ ~last.owned0 => last.status = 404

\* one of two credentials was deleted
C5_Witness ==
  /\ last.op = "delete_passkey" /\ last.status = 204
  /\ last.owned0 /\ last.n0 = 2
  /\ Cardinality(passkey) = 1

\* C6: no step of any interleaving of delete_passkey requests takes the
\* last credential of a user who has one
C6_NeverZeroPasskeys ==
  [][\A uid \in {x.user_id : x \in passkey} :
       \E y \in passkey' : y.user_id = uid]_vars

\* of two deletions of the user's two credentials one went through and the
\* other, still running, was refused
C6_Witness ==
  /\ last.op = "delete_passkey" /\ last.status = 204
  /\ \E r \in At("delete_passkey", "dp_exists") :
       r.owned0 /\ r.n0 = 1 /\ r.pk # last.pk
  /\ Cardinality(passkey) = 1

\* C7: redirect_complete answers 401 and sets no cookie when the token's
\* audience differs (ignoring case) from the origin resolved for the request
C7_AudienceBound ==
  (/\ last.op = "redirect_complete"
   /\ last.origin # {}
   /\ ~eq_ignore_ascii_case(The(last.htok).aud, The(last.origin)))
  => (last.status = 401 /\ last.cookie = {})

\* a token this service issued for another origin, unexpired, was refused
C7_Witness ==
  /\ last.op = "redirect_complete" /\ last.status = 401
  /\ last.origin # {}
  /\ The(last.htok) \in handoffs
  /\ The(last.htok).exp >= last.at
  /\ ~eq_ignore_ascii_case(The(last.htok).aud, The(last.origin))

\* C8: redirect_complete rejects, and sets no cookie, when the host of the
\* token's audience is not in the allow-list
C8_AudienceAllowListed ==
  (/\ last.op = "redirect_complete"
   /\ ~(origin_host(The(last.htok).aud) # {}
        /\ origin_host(The(last.htok).aud) \subseteq allowed_hosts))
  => (last.status \in {400, 401} /\ last.cookie = {})

\* a token with valid signature, expiry and issuer, presented on its own
\* audience origin, was refused because the host is no longer allow-listed
C8_Witness ==
  /\ last.op = "redirect_complete" /\ last.status = 401
  /\ last.origin # {}
  /\ The(last.htok) \in handoffs
  /\ The(last.htok).exp >= last.at
  /\ eq_ignore_ascii_case(The(last.htok).iss, rp_origin)
  /\ eq_ignore_ascii_case(The(last.htok).aud, The(last.origin))
  /\ ~(origin_host(The(last.htok).aud) \subseteq allowed_hosts)

\* C9: redirect_complete answers 401 to every handoff token presented after
\* its expiry time, i.e. more than 60 seconds after it was issued
C9_RejectedAfterExpiry ==
  (/\ last.op = "redirect_complete"
   /\ last.at > The(last.htok).exp)
  => last.status = 401

\* C10: a session token signed with another secret than the verifying one
\* is rejected; a subject is returned only for a token signed with the
\* verifying secret, and it is that token's subject
C10_SecretBound ==
  (last.op = "redirect_start" /\ last.tok # {}) =>
    /\ The(last.tok).key # jwt_secret =>
         (last.auth = {} /\ last.status = 401)
    /\ last.auth # {} =>
         (The(last.tok).key = jwt_secret /\ last.auth = {The(last.tok).sub})

\* a cookie signed with the other secret was refused
C10_Witness ==
  /\ last.op = "redirect_start" /\ last.status = 401
  /\ last.tok # {}
  /\ The(last.tok).key # jwt_secret
  /\ The(last.tok).exp >= last.at

\* the string s without its leading and trailing blanks
Spaces(n) == [i \in 1..n |-> " "]
Trimmed(s) ==
  CHOOSE t \in {SubSeq(s, i, j) : i \in 1..(Len(s) + 1), j \in 0..Len(s)} :
    /\ t = <<>> \/ (t[1] # " " /\ t[Len(t)] # " ")
    /\ \E i, j \in 0..Len(s) : s = Spaces(i) \o t \o Spaces(j)
SingleSlashStart(t) ==
  Len(t) >= 1 /\ t[1] = "/" /\ (Len(t) = 1 \/ t[2] # "/")
NoBackslash(t) == \A i \in 1..Len(t) : t[i] # "\\"

\* C11: normalize_redirect_path returns the trimmed input when that starts
\* with '/', not with '//', and has no backslash, and "/" otherwise (also
\* for an absent path); the result starts with exactly one '/' and has no
\* backslash
C11_NormalizeRedirectPath ==
  last.op = "normalize_redirect_path" =>
    LET path == The(last.args).path
        out == The(last.ret)
        accepted == /\ path # {}
                    /\ SingleSlashStart(Trimmed(The(path)))
                    /\ NoBackslash(Trimmed(The(path)))
    IN /\ accepted => out = Trimmed(The(path))
       /\ ~accepted => out = <<"/">>
       /\ SingleSlashStart(out) /\ NoBackslash(out)

\* a path with a leading blank was accepted in its trimmed form
C11_Witness ==
  /\ last.op = "normalize_redirect_path"
  /\ The(last.args).path # {}
  /\ The(last.ret) # <<"/">>
  /\ The(last.ret) # The(The(last.args).path)

\* C12: a ceremony row is handed only to the endpoint of its kind: a call
\* that holds a row holds one of its own kind, and a call that names the id
\* of a row of the other kind is rejected (400) and handed nothing
C12_KindBound ==
  /\ \A r \in Holders : The(r.row).kind = KindOf(r.op)
  /\ (/\ last.op \in CompleteOps
      /\ \E x \in auth_challenge : x.id = last.cid /\ x.kind # KindOf(last.op))
     => (last.status = 400 /\ last.row = {})

\* login_complete was refused the unexpired row of a register_begin, and
\* register_complete that of a login_begin
C12_Witness ==
  /\ last.op = "login_complete" /\ last.status = 400
  /\ \E x \in auth_challenge :
       x.id = last.cid /\ x.kind = "registration" /\ x.expires_at > now
C12_WitnessRegister ==
  /\ last.op = "register_complete" /\ last.status = 400
  /\ \E x \in auth_challenge :
       x.id = last.cid /\ x.kind = "authentication" /\ x.expires_at > now

\* C13: when redirect_complete accepts a handoff token (303) it sets as
\* cookie a session token issued at that moment for the token's subject,
\* the request came in on the token's audience origin, and the location is
\* the token's path normalised: a path starting with exactly one '/'
C13_HandoffAccepted ==
  (last.op = "redirect_complete" /\ last.status = 303) =>
    LET claims == The(last.htok)
        path == Trimmed(claims.path)
    IN /\ last.cookie # {}
       /\ The(last.cookie).sub = claims.sub
       /\ The(last.cookie).key = jwt_secret
       /\ The(last.cookie).iat = last.at
       /\ The(last.cookie).exp = last.at + SessionTtl
       /\ last.origin # {}
       /\ eq_ignore_ascii_case(claims.aud, The(last.origin))
       /\ last.location = IF SingleSlashStart(path) /\ NoBackslash(path)
                          THEN path ELSE <<"/">>
       /\ SingleSlashStart(last.location) /\ NoBackslash(last.location)

\* a token for the path /a was accepted some time after it was issued
C13_Witness ==
  /\ last.op = "redirect_complete" /\ last.status = 303
  /\ The(last.htok).path = <<"/", "a">>
  /\ last.location = <<"/", "a">>
  /\ last.at > The(last.htok).iat
  /\ The(last.cookie).sub = 1

\* C14: a session token carries expiry = issue time + 7 days; presented
\* with the server's secret to an authenticated endpoint it is rejected
\* (401) once the expiry has passed and authenticates as its subject before
C14_SessionExpiry ==
  (/\ last.op = "redirect_start"
   /\ last.tok # {}
   /\ The(last.tok).key = jwt_secret) =>
    /\ The(last.tok).exp = The(last.tok).iat + SessionTtl
    /\ last.at > The(last.tok).exp => (last.status = 401 /\ last.auth = {})
    /\ last.at <= The(last.tok).exp => last.auth = {The(last.tok).sub}

\* the middleware's call, its outcome and the claims' reading of the request
AuthSensitive ==
  {<<"/login">>, <<"/login", "/">>, <<"/login", "/x">>,
   <<"/setup">>, <<"/setup", "/x">>}
LoginPaths == {<<"/login">>, <<"/login", "/">>, <<"/login", "/x">>}
Mw == last.op = "enforce_canonical_auth_origin"
Req == The(last.args)
Resolved ==
  request_origin(Req.headers, request_fallback_scheme(Req.headers, rp_origin))
PassedThrough == last.step = "next" /\ last.status = 0 /\ last.ret = {}
Redirected == last.step = "done" /\ last.status = 307 /\ last.ret # {}
Sent == parse_query(Req.query)
Carried == parse_query(The(last.ret).query)
IsOther(p) == p.key \notin {"redirect_origin", "redirect_path"}
IsRedirectOrigin(p) == p.key = "redirect_origin"
IsRedirectPath(p) == p.key = "redirect_path"
NotRedirectOrigin(p) == p.key # "redirect_origin"
Has(pairs, key) == \E i \in 1..Len(pairs) : pairs[i].key = key

\* C15: on an auth-sensitive path a request whose resolved origin equals the
\* canonical origin (ignoring case) is passed through, one whose origin
\* differs is answered 307 to the same path on the canonical origin, and
\* every request ends in exactly one of the two outcomes
C15_PassOrRedirect ==
  Mw =>
    /\ (PassedThrough \/ Redirected) /\ ~(PassedThrough /\ Redirected)
    /\ (Req.path \in AuthSensitive /\ Resolved # {}) =>
         IF eq_ignore_ascii_case(The(Resolved), rp_origin)
         THEN PassedThrough
         ELSE /\ Redirected
              /\ The(last.ret).origin = rp_origin
              /\ The(last.ret).path = Req.path

\* a request for /setup/x on another origin was redirected
C15_Witness ==
  /\ Mw /\ Redirected
  /\ Req.path = <<"/setup", "/x">>
  /\ The(last.ret).path = <<"/setup", "/x">>
  /\ ~eq_ignore_ascii_case(The(Resolved), rp_origin)

\* C16: a request whose path is neither /login, /setup nor a sub-path of
\* them is passed through, whatever its origin and query
C16_OtherPathsPass ==
  (Mw /\ Req.path \notin AuthSensitive) => PassedThrough

\* /loginx on a foreign origin with a redirect_origin parameter passed
C16_Witness ==
  /\ Mw /\ PassedThrough
  /\ Req.path = <<"/login", "x">>
  /\ Resolved # {} /\ ~eq_ignore_ascii_case(The(Resolved), rp_origin)
  /\ Has(Sent, "redirect_origin")

\* C17 as stated: the redirect carries the other parameters unchanged and
\* in order, and no redirect_origin or redirect_path value that the
\* original request had
C17_NothingCopied ==
  (Mw /\ Redirected) =>
    /\ SelectSeq(Carried, IsOther) = SelectSeq(Sent, IsOther)
    /\ \A i \in 1..Len(Carried), j \in 1..Len(Sent) :
         ~IsOther(Carried[i]) => Carried[i] # Sent[j]

\* C17 amended: the redirect carries the other parameters unchanged and in
\* order; a redirect_origin it carries is the one derived from the resolved
\* origin, never one of the request; redirect_path pairs of the request
\* are dropped on a setup path and forwarded, unchanged and in place, on
\* the login path
C17_OnlyPathForwarded ==
  (Mw /\ Redirected) =>
    /\ SelectSeq(Carried, IsOther) = SelectSeq(Sent, IsOther)
    /\ \A i \in 1..Len(Carried) :
         IsRedirectOrigin(Carried[i]) =>
           /\ Carried[i].value = origin_text(The(Resolved))
           /\ \A j \in 1..Len(Sent) : Carried[i] # Sent[j]
           /\ \A k \in 1..Len(Carried) : IsRedirectOrigin(Carried[k]) => k = i
    /\ \A i \in 1..Len(The(last.ret).query) :
         The(last.ret).query[i].form = "canon"
    /\ Req.path \notin LoginPaths => ~Has(Carried, "redirect_path")
    /\ (Req.path \in LoginPaths /\ Has(Sent, "redirect_path")) =>
         SelectSeq(Carried, NotRedirectOrigin) = SelectSeq(Sent, NotRedirectOrigin)

\* a login redirect forwarded the request's redirect_path and dropped its
\* redirect_origin
C17_Witness ==
  /\ Mw /\ Redirected
  /\ Req.path \in LoginPaths
  /\ Has(Sent, "redirect_origin") /\ Has(Sent, "redirect_path")
  /\ Has(Sent, "next")
  /\ SelectSeq(Carried, IsRedirectPath) = SelectSeq(Sent, IsRedirectPath)
  /\ ~Has(Carried, "redirect_origin")

\* C18: the redirect carries redirect_origin = the resolved requesting
\* origin exactly when the path is the login path and the origin's host is
\* allow-listed, then with redirect_path=/ when the request gave none; on a
\* setup path it carries neither
C18_InjectedReturn ==
  (Mw /\ Redirected) =>
    LET listed == /\ origin_host(The(Resolved)) # {}
                  /\ origin_host(The(Resolved)) \subseteq allowed_hosts
        derived == [key |-> "redirect_origin", value |-> origin_text(The(Resolved))]
    IN /\ (Req.path \in LoginPaths /\ listed) =>
            /\ SelectSeq(Carried, IsRedirectOrigin) = <<derived>>
            /\ ~Has(Sent, "redirect_path") =>
                 SelectSeq(Carried, IsRedirectPath) =
                   <<[key |-> "redirect_path", value |-> "/"]>>
       /\ ~(Req.path \in LoginPaths /\ listed) => ~Has(Carried, "redirect_origin")
       /\ Req.path \notin LoginPaths =>
            ~Has(Carried, "redirect_origin") /\ ~Has(Carried, "redirect_path")

\* a login request on an allow-listed origin, without redirect_path, was
\* redirected with the derived pair and the default path
C18_Witness ==
  /\ Mw /\ Redirected
  /\ Req.path = <<"/login">>
  /\ ~Has(Sent, "redirect_path")
  /\ Has(Sent, "redirect_origin")
  /\ Len(Carried) >= 2
  /\ Carried[Len(Carried) - 1] =
       [key |-> "redirect_origin", value |-> "http://b.example"]
  /\ Carried[Len(Carried)] = [key |-> "redirect_path", value |-> "/"]

\* C19: request_fallback_scheme returns the canonical origin's scheme when
\* the request's resolved host equals the canonical origin's host host[:port]
\* (ignoring case) and http for every other host
C19_FallbackScheme ==
  last.op = "request_fallback_scheme" =>
    LET a == The(last.args)
        resolved == request_host(a.headers)
    IN resolved # {} =>
         IF /\ Lower(The(resolved).host) = Lower(a.rp.host)
            /\ The(resolved).port = a.rp.port
         THEN The(last.ret) = a.rp.scheme
         ELSE The(last.ret) = "http"

\* the first entry of a header value that is not blank
RECURSIVE FirstNonEmptyHost(_)
FirstNonEmptyHost(entries) ==
  IF entries = <<>> THEN {}
  ELSE IF Head(entries).host # "" THEN {Head(entries)}
  ELSE FirstNonEmptyHost(Tail(entries))
RECURSIVE FirstNonEmptyProto(_)
FirstNonEmptyProto(entries) ==
  IF entries = <<>> THEN {}
  ELSE IF Head(entries) # "" THEN {Head(entries)}
  ELSE FirstNonEmptyProto(Tail(entries))
HeaderEntries(v) == IF v = {} THEN <<>> ELSE The(v)

\* C20: request_origin is scheme://host with the host of x-forwarded-host
\* in preference to Host and the scheme of x-forwarded-proto in preference to
\* the fallback, each the first non-empty entry of the header's list, and
\* nothing when there is no usable host
C20_RequestOrigin ==
  last.op = "request_origin" =>
    LET a == The(last.args)
        forwarded == FirstNonEmptyHost(HeaderEntries(a.headers.xfh))
        host == IF forwarded # {} THEN forwarded
                ELSE FirstNonEmptyHost(HeaderEntries(a.headers.host))
        proto == FirstNonEmptyProto(HeaderEntries(a.headers.xfp))
        scheme == IF proto # {} THEN The(proto) ELSE a.fallback
    IN The(last.ret) =
         IF host = {} THEN {}
         ELSE {Origin(scheme, The(host).host, The(host).port)}
\* ---------------------------------------------------------------------
\* C21 (as stated): the session cookie is marked Secure exactly when the
\* origin resolved for the request has scheme https, whatever the
\* configured canonical origin is
CookieBuilt ==
  /\ last.op \in {"request_secure_cookie", "redirect_complete_cookie"}
  /\ last.ret # {}
CookieArg == The(last.args)
C21_SecureIffResolvedHttps ==
  CookieBuilt =>
    (The(last.ret) <=>
       (last.origin # {} /\ The(last.origin).scheme = "https"))

\* C21 (amended): when an origin is resolved for the request, the cookie is
\* Secure exactly when that origin's scheme is https; when no host can be
\* determined, redirect_complete sets no cookie and login_complete and
\* register_complete mark theirs Secure exactly when the configured
\* canonical origin is https
C21_SecureFollowsRequest ==
  /\ CookieBuilt /\ last.origin # {} =>
       (The(last.ret) <=> The(last.origin).scheme = "https")
  /\ CookieBuilt /\ last.origin = {} =>
       /\ last.op = "request_secure_cookie"
       /\ The(last.ret) <=> CookieArg.rp.scheme = "https"
  /\ last.op = "redirect_complete_cookie" /\ last.origin = {} =>
       last.ret = {} /\ last.status = 400

\* a request forwarded as https gets a Secure cookie although the
\* canonical origin is http
C21_Witness ==
  /\ CookieBuilt
  /\ last.op = "request_secure_cookie"
  /\ CookieArg.rp.scheme = "http"
  /\ CookieArg.headers.xfp = {<<"https">>}
  /\ last.origin # {}
  /\ last.ret = {TRUE}

\* ---------------------------------------------------------------------
\* C22: once a user row exists, a register_begin call without a valid
\* session is answered 401 and adds no ceremony row; a call without one
\* that was given a ceremony was made while no user existed.  A session is
\* valid when the cookie is signed with the server's key and session
\* verification still accepts its expiry (C14 is the claim about the
\* moment that ends)
ValidSession(tok, t) ==
  \E c \in tok : c.key = jwt_secret /\ c.exp >= t - Leeway
RegisterBeginStep == last' # last /\ last'.op = "register_begin"
C22_RegisterBeginGate ==
  [][/\ (RegisterBeginStep /\ user # {} /\ ~ValidSession(last'.tok, now))
        => /\ last'.status = 401
           /\ auth_challenge' \subseteq auth_challenge
           /\ uuid' = uuid
     /\ (/\ RegisterBeginStep /\ last'.status = 200
         /\ ~ValidSession(last'.tok, now))
        => /\ user = {}
           /\ \E x \in auth_challenge' \ auth_challenge :
                x.id = last'.cid /\ x.ctx.is_new_user]_vars

\* a caller with a cookie signed by another key was refused after the user
\* was created
C22_Witness ==
  /\ last.op = "register_begin" /\ last.status = 401
  /\ user # {}
  /\ \E c \in last.tok : c.key # jwt_secret

\* ---------------------------------------------------------------------
\* C23: a successful login_complete sets a session cookie for the user of
\* the ceremony; its response carries a redirect_url exactly when the
\* ceremony was begun with a redirect_origin that is allow-listed and is
\* not the canonical origin, and then the URL is
\* {target}/api/auth/redirect/complete with a handoff token whose audience
\* is that target
CrossOriginTarget(asked) ==
  \E o \in asked : o.ok /\ ~o.cred /\ Lower(o.scheme) \in {"http", "https"}
                   /\ Lower(o.host) = "b.example"
TargetOf(asked) ==
  {[o EXCEPT !.scheme = Lower(o.scheme), !.host = Lower(o.host)] : o \in asked}
LoginBegun ==
  last' # last /\ last'.op = "login_begin" /\ last'.status = 200
LoginCompleted ==
  last' # last /\ last'.op = "login_complete" /\ last'.status = 200
C23_LoginRedirectUrl ==
  [][/\ LoginBegun =>
          \E x \in auth_challenge' \ auth_challenge :
            /\ x.id = last'.cid
            /\ x.ctx.redirect_origin =
                 IF CrossOriginTarget(last'.origin)
                 THEN TargetOf(last'.origin) ELSE {}
     /\ LoginCompleted =>
          LET ctx == The(last'.row).ctx IN
          /\ \E c \in last'.cookie : c.sub = ctx.user_id /\ c.key = jwt_secret
          /\ last'.url # {} <=> ctx.redirect_origin # {}
          /\ \A u \in last'.url :
               /\ {u.origin} = ctx.redirect_origin
               /\ u.origin # rp_origin
               /\ u.path = "/api/auth/redirect/complete"
               /\ u.token.aud = u.origin
               /\ u.token.sub = ctx.user_id
               /\ u.token.key = jwt_secret]_vars

\* a login begun for https://b.example was completed and answered with a
\* URL on that origin
C23_Witness ==
  /\ last.op = "login_complete" /\ last.status = 200
  /\ last.cookie # {}
  /\ \E u \in last.url :
       u.origin = Origin("https", "b.example", 0) /\ u.token.aud = u.origin

\* a login begun without a target, or for the canonical origin, was
\* completed without a redirect_url
C23_WitnessNoTarget ==
  /\ last.op = "login_complete" /\ last.status = 200
  /\ last.cookie # {} /\ last.url = {}

\* ---------------------------------------------------------------------
\* C24: redirect_start answers 401 and issues nothing to a caller without
\* a valid session, answers 400 and issues nothing for a target that is
\* malformed or whose host is not allow-listed, and otherwise issues a
\* handoff token for that target whose subject is the caller's user id
AllowedTarget(o) ==
  /\ o.ok /\ ~o.cred /\ o.scheme \in {"http", "https"}
  /\ Lower(o.host) \in {"den.example", "b.example"} /\ o.port = 0
RedirectStarted == last' # last /\ last'.op = "redirect_start"
C24_RedirectStartGate ==
  [][RedirectStarted =>
       LET caller == last'.tok
           target == The(last'.origin)
       IN
       /\ ~ValidSession(caller, now) =>
            last'.status = 401 /\ last'.url = {} /\ handoffs' = handoffs
       /\ ValidSession(caller, now) /\ ~AllowedTarget(target) =>
            last'.status = 400 /\ last'.url = {} /\ handoffs' = handoffs
       /\ ValidSession(caller, now) /\ AllowedTarget(target) =>
            /\ last'.status = 200
            /\ \E u \in last'.url :
                 /\ u.token.sub = The(caller).sub
                 /\ u.token.aud = target
                 /\ u.origin = target
                 /\ u.token.key = jwt_secret
                 /\ handoffs' \subseteq handoffs \cup {u.token}]_vars

\* the user was given a token for https://b.example, issued to their own id
C24_Witness ==
  /\ last.op = "redirect_start" /\ last.status = 200
  /\ \E u \in last.url, c \in last.tok :
       /\ u.token.aud = Origin("https", "b.example", 0)
       /\ u.token.sub = c.sub /\ [id |-> c.sub] \in user

\* the user asked for a host that is not allow-listed and was refused
C24_WitnessRefused ==
  /\ last.op = "redirect_start" /\ last.status = 400
  /\ last.origin = {Origin("https", "evil.example", 0)}
  /\ ValidSession(last.tok, last.at)

\* ---------------------------------------------------------------------
\* C25: register_complete and login_complete answer a challenge id in the
\* same way - status 400, a response that carries nothing else, no stored
\* state changed - whether the id never existed, was already consumed, has
\* expired, or belongs to a ceremony of the other kind
RowsOf(cid) == {x \in auth_challenge : x.id = cid}
NeverExisted(cid) == RowsOf(cid) = {} /\ redeemed[cid] = 0
AlreadyConsumed(cid) == RowsOf(cid) = {} /\ redeemed[cid] > 0
HasExpired(cid) == \E x \in RowsOf(cid) : x.expires_at <= now
OtherKind(cid, op) == \E x \in RowsOf(cid) : x.kind # KindOf(op)
Refusal(op, cid) == [Idle EXCEPT !.op = op, !.cid = cid, !.status = 400]
Answer(r) == [r EXCEPT !.step = Idle.step]
Unredeemable(cid, op) ==
  \/ NeverExisted(cid)
  \/ AlreadyConsumed(cid)
  \/ HasExpired(cid)
  \/ OtherKind(cid, op)
C25_SameRefusal ==
  [][\* a call answered in the step that looks the id up
     /\ (/\ last' # last /\ inflight' = inflight
         /\ last'.op \in CompleteOps
         /\ Unredeemable(last'.cid, last'.op))
        => /\ Answer(last') = Refusal(last'.op, last'.cid)
           /\ UNCHANGED <<auth_challenge, user, passkey, sessions, handoffs,
                          uuid, redeemed>>
     \* a call that goes on after the lookup named a redeemable id
     /\ BagCardinality(inflight') > BagCardinality(inflight) =>
          \A r \in BagToSet(inflight') :
            CopiesIn(r, inflight') > CopiesIn(r, inflight)
            => ~Unredeemable(r.cid, r.op)]_vars

\* the four cases, each answered with the refusal
C25_Witness ==
  /\ last.op = "login_complete" /\ Answer(last) = Refusal(last.op, last.cid)
  /\ AlreadyConsumed(last.cid)
C25_WitnessNever ==
  /\ last.op \in CompleteOps /\ Answer(last) = Refusal(last.op, last.cid)
  /\ NeverExisted(last.cid)
C25_WitnessExpired ==
  /\ last.op \in CompleteOps /\ Answer(last) = Refusal(last.op, last.cid)
  /\ \E x \in RowsOf(last.cid) : x.kind = KindOf(last.op) /\ x.expires_at <= now
C25_WitnessOtherKind ==
  /\ last.op \in CompleteOps /\ Answer(last) = Refusal(last.op, last.cid)
  /\ \E x \in RowsOf(last.cid) : x.kind # KindOf(last.op) /\ x.expires_at > now

\* ---------------------------------------------------------------------
\* C26: the signing_key table never holds more than the record id = 1, and
\* holds it once a process serves; a stored key is never replaced; a start
\* that finds the record loads it and generates nothing, whether it runs
\* after a restart or while another start is under way; every process that
\* serves uses the stored key, so the session tokens issued so far verify
StartLoaded ==
  last' # last /\ last'.op = "init_jwt_secret" /\ last'.status = 200
C26_SingleSigningKey ==
  [][/\ signing_key' \in {{}} \cup {{[id |-> 1, secret |-> k]} : k \in Secrets}
     /\ signing_key # {} => signing_key' = signing_key
     /\ jwt_secret' # NoSecret =>
          signing_key' = {[id |-> 1, secret |-> jwt_secret']}
     /\ signing_key # {} =>
          /\ BagCardinality(inflight') <= BagCardinality(inflight)
          /\ StartLoaded =>
               last'.ret = {k \in Secrets : [id |-> 1, secret |-> k] \in signing_key}
     /\ \A c \in sessions' :
          jwt_secret' # NoSecret => c.key = jwt_secret']_vars

\* a process restarted on the database of an earlier one has loaded that
\* key, and the session issued before the restart verifies with it
C26_Witness ==
  /\ last.op = "init_jwt_secret" /\ last.status = 200 /\ last.step = "done"
  /\ last.ret = {"S1"} /\ signing_key = {[id |-> 1, secret |-> "S1"]}
  /\ sessions # {}
  /\ \A c \in sessions : jwt_valid(jwt_secret, c, now)

\* two processes started together on a new database: one stored its key,
\* the other's INSERT was refused
C26_WitnessRace ==
  /\ last.op = "init_jwt_secret" /\ last.step = "panic"
  /\ Cardinality(signing_key) = 1
  /\ jwt_secret # NoSecret

\* ---------------------------------------------------------------------
\* C27: a begin call removes only ceremony rows whose expires_at is in the
\* past, so every row a redeem would accept is still there after it; the
\* begin call is answered as its own inputs decide, whether or not expired
\* rows were removed; and a complete call is handed exactly the unexpired
\* row of its id and kind, whether or not expired rows are still stored
BeginOps == {"register_begin", "login_begin"}
BeginStep == last' # last /\ last'.op \in BeginOps
Redeemable(cid, op) ==
  {x \in auth_challenge :
     x.id = cid /\ x.kind = KindOf(op) /\ x.expires_at > now}
BadTarget(asked) ==
  \E o \in asked : \/ ~o.ok \/ o.cred
                   \/ Lower(o.scheme) \notin {"http", "https"}
                   \/ Lower(o.host) \notin {"den.example", "b.example"}
C27_SweepFrame ==
  [][/\ BeginStep =>
          /\ \A x \in auth_challenge \ auth_challenge' : x.expires_at < now
          /\ \A x \in auth_challenge : x.expires_at > now => x \in auth_challenge'
          /\ last'.op = "login_begin" =>
               last'.status = IF BadTarget(last'.origin) \/ passkey = {}
                              THEN 400 ELSE 200
          /\ last'.op = "register_begin" =>
               /\ last'.status \in {200, 400, 401}
               /\ user # {} =>
                    last'.status = IF ValidSession(last'.tok, now)
                                   THEN 200 ELSE 401
     /\ (/\ last' # last /\ inflight' = inflight
         /\ last'.op \in CompleteOps)
        => last'.row = Redeemable(last'.cid, last'.op)
     /\ BagCardinality(inflight') > BagCardinality(inflight) =>
          \A r \in BagToSet(inflight') :
            CopiesIn(r, inflight') > CopiesIn(r, inflight)
            => r.row = Redeemable(r.cid, r.op)]_vars

\* a begin call was answered 200 although the sweep it triggered removed
\* nothing: a row that had expired before the call is still stored
C27_Witness ==
  /\ last.op \in BeginOps /\ last.status = 200
  /\ \E new \in auth_challenge, x \in auth_challenge :
       /\ new.id = last.cid
       /\ x.expires_at < new.expires_at - ChallengeTtl

\* ---------------------------------------------------------------------
\* C28: login_begin given a redirect_origin that does not parse, has a
\* scheme other than http(s), carries credentials, has no host, or whose
\* host[:port] is not allow-listed answers 400 and leaves the ceremony
\* table as it was: no row is added (and none removed)
Malformed(o) ==
  \/ ~o.ok \/ o.cred \/ o.host = ""
  \/ Lower(o.scheme) \notin {"http", "https"}
AllowListed(o) ==
  /\ Lower(o.host) \in {"den.example", "b.example"}
  /\ o.port \in {0, DefaultPort(Lower(o.scheme))}
C28_BadRedirectOrigin ==
  [][(/\ last' # last /\ last'.op = "login_begin"
      /\ \E o \in last'.origin : Malformed(o) \/ ~AllowListed(o))
     => /\ last'.status = 400
        /\ last'.cid = 0
        /\ auth_challenge' = auth_challenge
        /\ uuid' = uuid]_vars

\* a login for a host that is not allow-listed was refused while a ceremony
\* was pending, and the pending row is still there
C28_Witness ==
  /\ last.op = "login_begin" /\ last.status = 400
  /\ last.origin = {Origin("https", "evil.example", 0)}
  /\ auth_challenge # {}

\* ... and one whose redirect_origin carries credentials
C28_WitnessMalformed ==
  /\ last.op = "login_begin" /\ last.status = 400
  /\ \E o \in last.origin : o.cred
  /\ auth_challenge # {}

\* ---------------------------------------------------------------------
\* C29: a handoff token that redirect_complete has just accepted is
\* accepted again when it is presented a second time on the same origin
\* before its expiry: the answer is 303 with a newly minted session
\* cookie, and no stored state says the token was used
C29_ReplayAccepted ==
  [][(/\ last.op = "redirect_complete" /\ last.status = 303
      /\ last' # last
      /\ last'.op = "redirect_complete"
      /\ last'.htok = last.htok /\ last'.origin = last.origin
      /\ now <= The(last.htok).exp)
     => /\ last'.status = 303
        /\ last'.seen
        /\ \E c \in last'.cookie :
             c.sub = The(last.htok).sub /\ c.iat = now /\ c.key = jwt_secret
        /\ UNCHANGED <<handoffs, sessions, auth_challenge, user, passkey,
                       signing_key, jwt_secret, allowed_hosts>>]_vars

\* the token was accepted a second time, later than the first and still
\* before its expiry, and another session was minted
C29_Witness ==
  /\ last.op = "redirect_complete" /\ last.status = 303 /\ last.seen
  /\ \E h \in last.htok, c \in last.cookie :
       /\ h.iat < last.at /\ last.at <= h.exp
       /\ c.iat = last.at /\ c.sub = h.sub

\* ---------------------------------------------------------------------
\* C30: logout changes nothing the server stores and sets no new session;
\* the session token a client logged out with is still accepted by an
\* authenticated endpoint (redirect_start) when it is sent again at or
\* before its expiry, and the call is answered as that token's subject
C30_LogoutKeepsToken ==
  [][/\ (last' # last /\ last'.op = "logout") =>
          /\ last'.status = 200 /\ last'.cookie = {}
          /\ UNCHANGED <<sessions, handoffs, auth_challenge, user, passkey,
                         signing_key, jwt_secret, allowed_hosts>>
     /\ (/\ last.op = "logout"
         /\ last' # last /\ last'.op = "redirect_start"
         /\ last'.tok = last.tok
         /\ \E c \in last.tok : c.key = jwt_secret /\ now <= c.exp)
        => /\ last'.seen
           /\ last'.auth = {c.sub : c \in last.tok}
           /\ last'.status \in {200, 400}]_vars

\* after the logout, the same cookie was sent to redirect_start later (and
\* before its expiry) and a handoff token was issued to its subject
C30_Witness ==
  /\ last.op = "redirect_start" /\ last.seen /\ last.status = 200
  /\ \E c \in last.tok, u \in last.url :
       /\ c.iat < last.at /\ last.at <= c.exp
       /\ u.token.sub = c.sub

\* ---------------------------------------------------------------------
\* C31: a register_begin, or a login_begin whose redirect_origin passes
\* validation, whose sweep succeeds leaves no row with expires_at earlier
\* than now; so in every run where such calls keep occurring, a ceremony
\* row whose expiry has passed is eventually gone
ExpiredRows == {r \in auth_challenge : r.expires_at < now}
SweepingBegin ==
  \/ register_begin_swept({TRUE})
  \/ /\ login_begin_swept(OriginInputs \cup MalformedOrigins, {TRUE})
     /\ ~(\E o \in last'.origin : Malformed(o) \/ ~AllowListed(o))
C31_ExpiredRowsSwept ==
  /\ [][SweepingBegin =>
          \A r \in auth_challenge :
            r.expires_at < now => r \notin auth_challenge']_vars
  /\ []<><<SweepingBegin>>_vars =>
       \A c \in 1..MaxUuid :
         (\E r \in ExpiredRows : r.id = c)
           ~> (\A r \in auth_challenge : r.id # c)

\* a ceremony that was begun and never completed is gone after a later
\* begin call, while a younger one is still there
C31_Witness ==
  /\ last.op \in BeginOps /\ last.status = 200
  /\ user = {} /\ uuid = 4
  /\ \A r \in auth_challenge : r.id # 2
  /\ auth_challenge # {}

\* ---------------------------------------------------------------------
\* C32: a first-user register_complete that reaches the insert when a user
\* row exists is answered 409, and that step leaves the tables as they
\* are: no user row inserted or replaced, no credential stored, no session
\* cookie set; its own ceremony row is gone and no other
UserInsertStep ==
  \E r \in At("register_complete", "rc_user") :
    CopiesIn(r, inflight') < CopiesIn(r, inflight)
LoserStep ==
  last' # last /\ last'.op = "register_complete" /\ last'.status = 409
C32_LoserChangesNothing ==
  [][/\ (UserInsertStep /\ user # {}) => LoserStep
     /\ LoserStep =>
          /\ user' = user /\ user # UserOf(last')
          /\ passkey' = passkey
          /\ PasskeysOf(The(last'.row).ctx.user_id) = {}
          /\ sessions' = sessions /\ last'.cookie = {}
          /\ auth_challenge' = auth_challenge
          /\ redeemed[last'.cid] = 1
          /\ \A x \in auth_challenge' : x.id # last'.cid]_vars

\* the loser was answered 409 after the winner had stored its credential
C32_Witness ==
  /\ FirstUser(last) /\ last.status = 409
  /\ Cardinality(user) = 1 /\ Cardinality(passkey) = 1
  /\ inflight = EmptyBag

\* ---------------------------------------------------------------------
\* C33: login_begin stores a target only for a redirect_origin it accepted
\* as cross-origin, together with a path that starts with one "/"; a
\* stored row never changes; and the handoff token of a successful
\* login_complete has as audience and path the pair of the row it redeemed,
\* whatever the request carried, while a row without a target yields no
\* handoff token
StoredRow(cid) == {x \in auth_challenge : x.id = cid}
StoredPaths == {<<"/">>, <<"/", "a">>}
C33_TargetFixedAtBegin ==
  [][/\ LoginBegun =>
          \E x \in auth_challenge' \ auth_challenge :
            /\ x.id = last'.cid
            /\ x.ctx.redirect_origin # {} <=> CrossOriginTarget(last'.origin)
            /\ x.ctx.redirect_origin \subseteq TargetOf(last'.origin)
            /\ x.ctx.redirect_path = {} <=> x.ctx.redirect_origin = {}
            /\ x.ctx.redirect_path \subseteq StoredPaths
     /\ \A x \in auth_challenge, y \in auth_challenge' : x.id = y.id => x = y
     /\ LoginCompleted =>
          \E x \in StoredRow(last'.cid) :
            /\ x \notin auth_challenge'
            /\ last'.url = {} <=> x.ctx.redirect_origin = {}
            /\ x.ctx.redirect_origin = {} => handoffs' = handoffs
            /\ \A u \in last'.url :
                 /\ {u.token.aud} = x.ctx.redirect_origin
                 /\ {u.token.path} = x.ctx.redirect_path]_vars

\* a login begun for https://b.example with path /a was completed by a
\* request sent to another host, and the token names b.example and /a
C33_Witness ==
  /\ last.op = "login_complete" /\ last.status = 200 /\ last.secure
  /\ \E u \in last.url :
       /\ u.token.aud = Origin("https", "b.example", 0)
       /\ u.token.path = <<"/", "a">>

\* a login begun without a target was completed without a handoff token
C33_WitnessNoTarget ==
  /\ last.op = "login_complete" /\ last.status = 200 /\ last.secure
  /\ last.url = {} /\ handoffs = {}

\* ---------------------------------------------------------------------
\* C34: in every reachable state every user row has at least one passkey
\* row, also while a register_complete is between its user insert and its
\* passkey insert
C34_UserHasCredential ==
  \A u \in user : PasskeysOf(u.id) # {}

\* ---------------------------------------------------------------------
\* C35: a register_complete or login_complete that was handed the ceremony
\* row and then fails (401 without a session, 400 or 401 on a credential
\* that does not verify, 409 on the bootstrap conflict) has consumed the
\* id: the row is gone; no failure other than the not-found 400 comes
\* before the row is taken; and a later call with a consumed id is
\* answered 400 without a row
CompletionAnswered == last' # last /\ last'.op \in CompleteOps
FailedAfterRedeem ==
  /\ CompletionAnswered
  /\ last'.row # {}
  /\ last'.status \in {400, 401, 409}
C35_FailureConsumesId ==
  [][/\ FailedAfterRedeem =>
          /\ \A x \in auth_challenge' : x.id # last'.cid
          /\ redeemed'[last'.cid] = 1
     /\ (CompletionAnswered /\ last'.status \in {401, 409}) => last'.row # {}
     /\ (/\ CompletionAnswered /\ inflight' = inflight
         /\ redeemed[last'.cid] > 0)
        => last'.status = 400 /\ last'.row = {}
     /\ BagCardinality(inflight') > BagCardinality(inflight) =>
          \A r \in BagToSet(inflight') :
            CopiesIn(r, inflight') > CopiesIn(r, inflight)
            => redeemed[r.cid] = 0 /\ (\A x \in auth_challenge' : x.id # r.cid)]_vars

\* a first registration failed on its credential, and the retry with the
\* same id, within the TTL, is answered 400
C35_Witness ==
  /\ last.op = "register_complete" /\ last.status = 400 /\ last.row = {}
  /\ redeemed[last.cid] = 1
  /\ user = {} /\ inflight = EmptyBag /\ ticks = 0

\* a completion was refused after it had taken the row
C35_WitnessFailed ==
  /\ last.op \in CompleteOps /\ last.row # {} /\ last.status = 401
  /\ \A x \in auth_challenge : x.id # last.cid

\* ---------------------------------------------------------------------
\* C36: a completion call that names the unexpired row of a ceremony of
\* the other kind is answered 400 and changes nothing: the row stays as it
\* is and no call has been handed it; and a completion call of the row's
\* own kind that names a row that is there and has not expired is handed
\* that row, which then is gone, so it is handed out once
WrongKindRows(op, cid) ==
  {x \in auth_challenge :
     x.id = cid /\ x.kind # KindOf(op) /\ x.expires_at > now}
OwnKindRows(op, cid) ==
  {x \in auth_challenge :
     x.id = cid /\ x.kind = KindOf(op) /\ x.expires_at > now}
Started ==
  {r \in BagToSet(inflight') : CopiesIn(r, inflight') > CopiesIn(r, inflight)}
C36_WrongKindKeepsRow ==
  [][/\ (/\ CompletionAnswered /\ inflight' = inflight
         /\ WrongKindRows(last'.op, last'.cid) # {})
        => /\ last'.status = 400 /\ last'.row = {}
           /\ auth_challenge' = auth_challenge
           /\ redeemed' = redeemed
           /\ UNCHANGED <<user, passkey, sessions, handoffs>>
     /\ (/\ CompletionAnswered /\ inflight' = inflight
         /\ OwnKindRows(last'.op, last'.cid) # {})
        => /\ last'.row = OwnKindRows(last'.op, last'.cid)
           /\ auth_challenge' = auth_challenge \ last'.row
           /\ redeemed[last'.cid] = 0 /\ redeemed'[last'.cid] = 1
     /\ BagCardinality(inflight') > BagCardinality(inflight) =>
          \A r \in Started :
            /\ r.row = OwnKindRows(r.op, r.cid) /\ r.row # {}
            /\ auth_challenge' = auth_challenge \ r.row
            /\ redeemed[r.cid] = 0 /\ redeemed'[r.cid] = 1]_vars

\* the id of a login ceremony was presented to register_complete and
\* refused, and the row is still there, unexpired and never handed out
C36_Witness ==
  /\ last.op = "register_complete" /\ last.status = 400 /\ last.row = {}
  /\ redeemed[last.cid] = 0
  /\ \E x \in auth_challenge :
       x.id = last.cid /\ x.kind = "authentication" /\ x.expires_at > now

\* a login ceremony was redeemed by login_complete
C36_WitnessOwnKind ==
  /\ last.op = "login_complete" /\ last.status = 200
  /\ redeemed[last.cid] = 1
  /\ The(last.row).kind = "authentication"

\* ---------------------------------------------------------------------
\* C37 (as stated): every handoff token issued, by login_complete or by
\* redirect_start, has the canonical origin as issuer, an audience whose
\* host is in the allow-list, and a path that normalize_redirect_path
\* leaves unchanged
IssuedTokens(r) ==
  IF r.op \in {"login_complete", "redirect_start"}
  THEN {u.token : u \in r.url} ELSE {}
HostAllowed(o) == origin_host(o) # {} /\ origin_host(o) \subseteq allowed_hosts
C37_IssuedTokenShape ==
  \A k \in IssuedTokens(last) :
    /\ k.iss = rp_origin
    /\ HostAllowed(k.aud)
    /\ normalize_redirect_path({k.path}) = k.path

\* C37 (amended): every handoff token issued has the canonical origin as
\* issuer and a path that normalize_redirect_path leaves unchanged; the
\* audience of a token from redirect_start has its host in the allow-list;
\* the audience of a token from login_complete is the target stored by
\* login_begin, whose host was in the allow-list when login_begin stored it
C37_IssuedTokenShapeAtValidation ==
  [][/\ \A k \in IssuedTokens(last') :
          /\ k.iss = rp_origin
          /\ normalize_redirect_path({k.path}) = k.path
          /\ last'.op = "redirect_start" => HostAllowed(k.aud)
          /\ last'.op = "login_complete" =>
               \E x \in StoredRow(last'.cid) : {k.aud} = x.ctx.redirect_origin
     /\ LoginBegun =>
          \A x \in auth_challenge' \ auth_challenge :
            \A o \in x.ctx.redirect_origin : HostAllowed(o)]_vars

\* the service was restarted without b.example in its configuration while
\* a login for https://b.example was pending, and login_complete issued
\* the token for it
C37_Witness ==
  /\ last.op = "login_complete" /\ last.status = 200
  /\ \E k \in IssuedTokens(last) :
       k.aud = Origin("https", "b.example", 0) /\ ~HostAllowed(k.aud)

\* redirect_start issued a token for an allow-listed host with path /a
C37_WitnessStart ==
  /\ last.op = "redirect_start" /\ last.status = 200
  /\ \E k \in IssuedTokens(last) :
       /\ k.aud = Origin("https", "b.example", 0) /\ HostAllowed(k.aud)
       /\ k.path = <<"/", "a">> /\ k.iss = rp_origin

\* ---------------------------------------------------------------------
\* C38: a redirect of the middleware carries a redirect_path parameter
\* only if it carries a redirect_origin parameter
C38_PathOnlyWithOrigin ==
  (Mw /\ Redirected) =>
    (Has(Carried, "redirect_path") => Has(Carried, "redirect_origin"))

\* ---------------------------------------------------------------------
\* C39: a request that names the canonical origin's host and carries no
\* forwarded header is passed through on every path, so the request a
\* client sends when it follows the middleware's redirect is passed
\* through and not redirected again
NamesCanonicalHost(request) ==
  /\ request.headers.xfh = {} /\ request.headers.xfp = {}
  /\ \E h \in request.headers.host :
       /\ Len(h) = 1
       /\ Lower(h[1].host) = request.rp.host /\ h[1].port = request.rp.port
C39_RedirectEnds ==
  Mw =>
    /\ NamesCanonicalHost(Req) => PassedThrough
    /\ last.seen => NamesCanonicalHost(Req) /\ PassedThrough

====
